---- MODULE Spec2Model ----
(***************************************************************************)
(* Model of megatron/optimizer/optimizer.py: the distributed mixed-        *)
(* precision optimizer (Float16DistributedOptimizer), the replicated       *)
(* variant (Float16OptimizerWithFloat16Params) and their common base       *)
(* (BaseFloat16Optimizer).                                                 *)
(*                                                                         *)
(* Ranks are 0..W-1 as in the source (range(data_parallel_world_size)).    *)
(* A python dict that is iterated (param_index_map, param_map) is a        *)
(* sequence of records in insertion order; the dict key is field "key".    *)
(***************************************************************************)
EXTENDS Integers, Sequences, FiniteSets, TLC

\* ------------------------------------------------------------------ bounds

\* Largest grad-buffer length N drawn for the partitioner.
MaxN == 3

\* Largest data-parallel world size W drawn for the partitioner.
MaxW == 3

\* Most parameters placed in one grad buffer.
MaxParams == 2

\* ----------------------------------------------------------------- helpers

Max(a, b) == IF a >= b THEN a ELSE b

Min(a, b) == IF a <= b THEN a ELSE b

RECURSIVE SumSeq(_)
SumSeq(s) == IF s = << >> THEN 0 ELSE Head(s) + SumSeq(Tail(s))

RECURSIVE Flatten(_)
Flatten(ss) == IF ss = << >> THEN << >> ELSE Head(ss) \o Flatten(Tail(ss))

Reverse(s) == [k \in 1..Len(s) |-> s[Len(s) + 1 - k]]

\* The indices a python slice t[start:end] selects from a tensor of length n
\* (0-based); a slice whose end is not above its start is empty.
SliceIdx(start, end, n) == {i \in 0..(n - 1) : start <= i /\ i < end}

\* ------------------------------------------------------------------- Shard

\* class Shard: __init__(start, end) sets size = end - start.
Shard(start, end) == [start |-> start, end |-> end, size |-> end - start]

\* Shard.normalize(start = 0)
normalize(s, start) == Shard(start, start + s.size)

\* The set of indices a Shard denotes when it is used to slice a tensor.
ShardIdx(s) == s.start..(s.end - 1)

\* --------------------------------------------------- gradient-buffer shards

\* The mutant of max_gbuf_shard_size: floor instead of ceiling.
max_gbuf_shard_size_floor(gbuf_size, world_size) == gbuf_size \div world_size

\* max_gbuf_shard_size = int(math.ceil(gbuf_size / data_parallel_world_size))
max_gbuf_shard_size(gbuf_size, world_size) ==
    (gbuf_size + world_size - 1) \div world_size

\* The body of the loop `for r in range(data_parallel_world_size)`.
gbuf_world_shard_of(gbuf_size, world_size, r) ==
    LET m == max_gbuf_shard_size(gbuf_size, world_size)
        gbuf_world_start == r * m
        gbuf_world_end == Min(gbuf_size, gbuf_world_start + m)
    IN  Shard(gbuf_world_start, gbuf_world_end)

\* gbuf_world_all_shards, indexed by rank.
gbuf_world_all_shards(gbuf_size, world_size) ==
    [r \in 0..(world_size - 1) |-> gbuf_world_shard_of(gbuf_size, world_size, r)]

\* The mutant of param_shard_entry: the sub-range inside the parameter is
\* taken at the local buffer offset instead of max(0, shard.start - p0).
param_shard_entry_local(e, gbuf_world_shard) ==
    LET param_local_start == Max(0, e.start - gbuf_world_shard.start)
        param_local_end == Min(gbuf_world_shard.size,
                               e.end - gbuf_world_shard.start)
        param_local_shard == Shard(param_local_start, param_local_end)
    IN  [key        |-> e.key,
         gbuf_world |-> normalize(param_local_shard,
                                  param_local_start + gbuf_world_shard.start),
         gbuf_local |-> param_local_shard,
         param      |-> normalize(param_local_shard, param_local_start)]

\* One iteration of the loop of get_model_gbuf_param_shard_map: the three
\* ranges of the parameter e = (key, [start, end)) against the world shard.
param_shard_entry(e, gbuf_world_shard) ==
    LET param_local_start == Max(0, e.start - gbuf_world_shard.start)
        param_local_end == Min(gbuf_world_shard.size,
                               e.end - gbuf_world_shard.start)
        param_local_shard == Shard(param_local_start, param_local_end)
        param_world_shard == normalize(param_local_shard,
                                 param_local_start + gbuf_world_shard.start)
        sub_param_start == Max(0, gbuf_world_shard.start - e.start)
        sub_param_shard == normalize(param_local_shard, sub_param_start)
    IN  [key        |-> e.key,
         gbuf_world |-> param_world_shard,
         gbuf_local |-> param_local_shard,
         param      |-> sub_param_shard]

\* The mutant of within_range: an empty intersection is recorded too.
within_range_or_empty(entry) == entry.gbuf_local.end >= entry.gbuf_local.start

\* `if param_local_end > param_local_start` ("Add shard, if within range").
within_range(entry) == entry.gbuf_local.end > entry.gbuf_local.start

RECURSIVE param_shard_map_from(_, _, _)
\* The loop of get_model_gbuf_param_shard_map from the k-th item of the index
\* map on: the entries that are within range, in iteration order.
param_shard_map_from(param_world_index_map, k, gbuf_world_shard) ==
    IF k > Len(param_world_index_map) THEN << >>
    ELSE (IF within_range(param_shard_entry(param_world_index_map[k],
                                            gbuf_world_shard))
          THEN <<param_shard_entry(param_world_index_map[k], gbuf_world_shard)>>
          ELSE << >>)
         \o param_shard_map_from(param_world_index_map, k + 1, gbuf_world_shard)

\* get_model_gbuf_param_shard_map(model, dtype, gbuf_world_shard)
get_model_gbuf_param_shard_map(param_world_index_map, gbuf_world_shard) ==
    param_shard_map_from(param_world_index_map, 1, gbuf_world_shard)

\* get_model_gbuf_shard(model, dtype) on rank data_parallel_rank.
get_model_gbuf_shard(gbuf, data_parallel_rank, world_size) ==
    LET all == gbuf_world_all_shards(gbuf.numel, world_size)
        gbuf_world_shard == all[data_parallel_rank]
    IN  [local     |-> normalize(gbuf_world_shard, 0),
         world     |-> gbuf_world_shard,
         world_all |-> all,
         param_map |-> get_model_gbuf_param_shard_map(gbuf.param_index_map,
                                                      gbuf_world_shard)]

\* get_model_gbuf_shard_map for every model, flattened over (model_index,
\* dtype) in iteration order: one record per grad buffer.
get_model_gbuf_shard_maps(gbufs, data_parallel_rank, world_size) ==
    [b \in 1..Len(gbufs) |->
        get_model_gbuf_shard(gbufs[b], data_parallel_rank, world_size)]

\* The keys of a dict held as a sequence of records with field "key".
Keys(dict) == {dict[k].key : k \in 1..Len(dict)}

\* get_param_gbuf_map: param -> the grad buffer (model_index, dtype) it is in,
\* for the parameters that appear in this rank's param maps.
get_param_gbuf_map(gbuf_shards) ==
    [p \in UNION {Keys(gbuf_shards[b].param_map) : b \in 1..Len(gbuf_shards)} |->
        CHOOSE b \in 1..Len(gbuf_shards) : p \in Keys(gbuf_shards[b].param_map)]

\* ------------------------------------------------------------------ values

\* A tensor element: a rational n/d in lowest terms (exact arithmetic), one of
\* the IEEE non-finite values, or the content of torch.empty before any write.
Fin(n) == [k |-> "fin", n |-> n, d |-> 1]

PosInf == [k |-> "inf", n |-> 0, d |-> 1]

NegInf == [k |-> "-inf", n |-> 0, d |-> 1]

NaN == [k |-> "nan", n |-> 0, d |-> 1]

Uninit == [k |-> "uninit", n |-> 0, d |-> 1]

RECURSIVE GCD(_, _)
GCD(a, b) == IF b = 0 THEN a ELSE GCD(b, a % b)

Abs(x) == IF x < 0 THEN -x ELSE x

\* The rational n/d (d > 0) in lowest terms.
Rat(n, d) ==
    [k |-> "fin", n |-> n \div GCD(Abs(n), d), d |-> d \div GCD(Abs(n), d)]

\* torch.isfinite is false for inf, -inf and nan.
IsNonFinite(v) == v.k \in {"inf", "-inf", "nan"}

Sign(v) ==
    IF v.k = "inf" THEN 1
    ELSE IF v.k = "-inf" THEN -1
    ELSE IF v.n > 0 THEN 1 ELSE IF v.n < 0 THEN -1 ELSE 0

\* a + b: exact on rationals, IEEE 754 on the non-finite values.  An
\* uninitialized operand makes the result uninitialized.
Add(a, b) ==
    IF a.k = "uninit" \/ b.k = "uninit" THEN Uninit
    ELSE IF a.k = "nan" \/ b.k = "nan" THEN NaN
    ELSE IF a.k = "fin" /\ b.k = "fin"
         THEN Rat(a.n * b.d + b.n * a.d, a.d * b.d)
    ELSE IF a.k = "fin" THEN b
    ELSE IF b.k = "fin" THEN a
    ELSE IF a.k = b.k THEN a ELSE NaN

\* a * b, likewise (inf * 0 = nan).
Mul(a, b) ==
    IF a.k = "uninit" \/ b.k = "uninit" THEN Uninit
    ELSE IF a.k = "nan" \/ b.k = "nan" THEN NaN
    ELSE IF a.k = "fin" /\ b.k = "fin" THEN Rat(a.n * b.n, a.d * b.d)
    ELSE IF Sign(a) * Sign(b) > 0 THEN PosInf
    ELSE IF Sign(a) * Sign(b) < 0 THEN NegInf
    ELSE NaN

\* a - b
Sub(a, b) == Add(a, Mul(Fin(-1), b))

\* 1 / a for a positive rational a.
Inv(a) == Rat(a.d, a.n)

\* A tensor of length n is a function on 0..n-1.
TensorLen(t) == Cardinality(DOMAIN t)

\* torch.empty((n,))
EmptyTensor(n) == [i \in 0..(n - 1) |-> Uninit]

\* dst[dstart : dstart+size].copy_(src[sstart : sstart+size])
CopySlice(dst, dstart, src, sstart, size) ==
    [i \in DOMAIN dst |->
        IF dstart <= i /\ i < dstart + size THEN src[sstart + (i - dstart)]
        ELSE dst[i]]

\* d[key] for a dict held as a sequence of records with field "key".
Lookup(dict, key) == dict[CHOOSE k \in 1..Len(dict) : dict[k].key = key]

\* ------------------------------------------------------ master param groups

\* param_group_map: param -> index of the group that lists it.
param_group_map_of(groups) ==
    [p \in UNION {{groups[g].params[k] : k \in 1..Len(groups[g].params)} :
                      g \in 1..Len(groups)} |->
        CHOOSE g \in 1..Len(groups) :
            \E k \in 1..Len(groups[g].params) : groups[g].params[k] = p]

\* The mutant of param_size_of: the end of the sub-range, not its size.
param_size_of_end(entry) == entry.param.end

\* param_size = gbuf_shard_map["param_map"][param]["param"].size
param_size_of(entry) == entry.param.size

\* The mutant of add_param_to_group: every range starts at 0 instead of at the
\* group's cursor.
add_param_to_group_from_zero(group_shard, key, param_size) ==
    [group_shard EXCEPT
        !.size = @ + param_size,
        !.param_map = Append(@, [key |-> key, shard |-> Shard(0, param_size)])]

\* The innermost loop body of get_optimizer_group_shards.
add_param_to_group(group_shard, key, param_size) ==
    LET param_group_start == group_shard.size
        param_group_end == param_group_start + param_size
    IN  [group_shard EXCEPT
            !.size = @ + param_size,
            !.param_map = Append(@, [key |-> key,
                                     shard |-> Shard(param_group_start,
                                                     param_group_end)])]

RECURSIVE fill_group_shards(_, _, _, _)
\* The loops over model_gbuf_shards, dtypes and param_map, run over the
\* param-map entries of all grad buffers in iteration order.
fill_group_shards(entries, k, param_group_map, group_shards) ==
    IF k > Len(entries) THEN group_shards
    ELSE LET group_index == param_group_map[entries[k].key]
         IN  fill_group_shards(entries, k + 1, param_group_map,
                 [group_shards EXCEPT ![group_index] =
                     add_param_to_group(group_shards[group_index],
                                        entries[k].key,
                                        param_size_of(entries[k]))])

\* The mutant of group_is_nonempty: no group is dropped.
group_is_kept_always(group_shard) == group_shard.size >= 0

\* `g["size"] > 0`
group_is_nonempty(group_shard) == group_shard.size > 0

RECURSIVE squeeze_from(_, _)
\* The groups from the k-th on that pass group_is_nonempty, in order.
squeeze_from(group_shards, k) ==
    IF k > Len(group_shards) THEN << >>
    ELSE (IF group_is_nonempty(group_shards[k]) THEN <<group_shards[k]>>
          ELSE << >>)
         \o squeeze_from(group_shards, k + 1)

\* "Squeeze zero-size group shards."
squeeze_group_shards(group_shards) == squeeze_from(group_shards, 1)

\* group_shards = [ {"size": 0, "param_map": {}} for _ in param_groups ], with
\* orig_group the index of the original group in param_groups.
empty_group_shards(groups) ==
    [g \in 1..Len(groups) |-> [size |-> 0, param_map |-> << >>, orig_group |-> g]]

\* The param-map entries of all grad buffers, in iteration order.
all_param_map_entries(gbuf_shards) ==
    Flatten([b \in 1..Len(gbuf_shards) |-> gbuf_shards[b].param_map])

\* get_optimizer_group_shards(param_groups, model_gbuf_shards)
get_optimizer_group_shards(groups, gbuf_shards) ==
    squeeze_group_shards(
        fill_group_shards(all_param_map_entries(gbuf_shards), 1,
                          param_group_map_of(groups), empty_group_shards(groups)))

\* allocate_main_param_shards: one flat tensor per retained group, and its grad.
allocate_main_param_shards(group_shards) ==
    [g \in 1..Len(group_shards) |-> EmptyTensor(group_shards[g].size)]

\* The mutant of model_shard_of_init: the parameter's leading elements.
model_shard_of_init_from_zero(entry) == normalize(entry.param, 0)

\* _copy_model_params_to_main_params: model_shard = ...[model_param]["param"]
model_shard_of_init(entry) == entry.param

RECURSIVE copy_model_params_to_main_group(_, _, _, _, _, _)
\* The inner loop of _copy_model_params_to_main_params for one group.
copy_model_params_to_main_group(main, group_shard, k, gbuf_map, gbuf_shards, params) ==
    IF k > Len(group_shard.param_map) THEN main
    ELSE LET model_param == group_shard.param_map[k].key
             main_shard == group_shard.param_map[k].shard
             model_shard == model_shard_of_init(
                                Lookup(gbuf_shards[gbuf_map[model_param]].param_map,
                                       model_param))
         IN  copy_model_params_to_main_group(
                 CopySlice(main, main_shard.start, params[model_param],
                           model_shard.start, model_shard.size),
                 group_shard, k + 1, gbuf_map, gbuf_shards, params)

\* Float16DistributedOptimizer._copy_model_params_to_main_params
copy_model_params_to_main_params(mains, group_shards, gbuf_map, gbuf_shards, params) ==
    [g \in 1..Len(group_shards) |->
        copy_model_params_to_main_group(mains[g], group_shards[g], 1,
                                        gbuf_map, gbuf_shards, params)]

\* ----------------------------------------------------------- configurations

\* The layouts of one grad buffer of length n: parameter sizes laid end to end
\* from 0, covering [0, n) or a prefix of it.
SizeSeqs(n) ==
    {s \in UNION {[1..k -> 1..n] : k \in 0..MaxParams} : SumSeq(s) <= n}

BufShapes ==
    UNION {{[numel |-> n, sizes |-> s] : s \in SizeSeqs(n)} : n \in 1..MaxN}

\* A second grad buffer holds one parameter that fills it.
SecondBufShapes == {[numel |-> n, sizes |-> <<n>>] : n \in 1..MaxN}

\* One or two grad buffers.
BufShapeLists ==
    {<<a>> : a \in BufShapes}
    \cup {<<a, b>> : a \in BufShapes, b \in SecondBufShapes}

\* model._grad_buffer_param_index_map[dtype]: the k-th parameter of the buffer
\* has the key first_key + k - 1 and the k-th range; with rev the map iterates
\* from the last range to the first.
MkIndexMap(sizes, first_key, rev) ==
    LET fwd == [k \in 1..Len(sizes) |->
                   [key   |-> first_key + k - 1,
                    start |-> SumSeq(SubSeq(sizes, 1, k - 1)),
                    end   |-> SumSeq(SubSeq(sizes, 1, k))]]
    IN  IF rev THEN Reverse(fwd) ELSE fwd

\* The grad buffers of the models, in iteration order over (model, dtype).
MkGbufs(shapes, rev) ==
    [b \in 1..Len(shapes) |->
        [model_index     |-> b - 1,
         dtype           |-> "torch.float",
         numel           |-> shapes[b].numel,
         param_index_map |->
             MkIndexMap(shapes[b].sizes,
                        1 + SumSeq([c \in 1..(b - 1) |-> Len(shapes[c].sizes)]),
                        rev)]]

AllParams(gbufs) ==
    UNION {Keys(gbufs[b].param_index_map) : b \in 1..Len(gbufs)}

ParamRange(gbufs, p) ==
    LET b == CHOOSE c \in 1..Len(gbufs) : p \in Keys(gbufs[c].param_index_map)
    IN  Lookup(gbufs[b].param_index_map, p)

ParamBuf(gbufs, p) ==
    CHOOSE c \in 1..Len(gbufs) : p \in Keys(gbufs[c].param_index_map)

ParamNumel(gbufs, p) == ParamRange(gbufs, p).end - ParamRange(gbufs, p).start

GroupPatterns == {"all_first", "all_second", "alternate"}

\* The inner optimizer's two param groups over the parameters, in key order.
MkParamGroups(gbufs, pattern) ==
    LET np == Cardinality(AllParams(gbufs))
        all == [k \in 1..np |-> k]
        in_first(p) == \/ pattern = "all_first"
                       \/ pattern = "alternate" /\ p % 2 = 1
    IN  << [params |-> SelectSeq(all, in_first)],
           [params |-> SelectSeq(all, LAMBDA p : ~in_first(p))] >>

\* The replicas' initial weights: element i of parameter p, the same on
\* every rank.
InitParamValue(p, i) == Fin(10 * p + i)

InitModelParams(gbufs) ==
    [p \in AllParams(gbufs) |->
        [i \in 0..(ParamNumel(gbufs, p) - 1) |-> InitParamValue(p, i)]]

\* The grad buffers as the data-parallel wrapper zeroes them.
ZeroBuffers(gbufs) ==
    [b \in 1..Len(gbufs) |-> [i \in 0..(gbufs[b].numel - 1) |-> Fin(0)]]

\* -------------------------------------------------------------------- state

VARIABLES
    world_size,         \* data_parallel_world_size
    models,             \* the grad buffers of self.models, with their index maps
    param_groups,       \* the original optimizer's param groups
    constructed,        \* the ranks whose optimizer __init__ has run
    model_gbuf_shards,  \* rank -> self.model_gbuf_shards
    param_gbuf_map,     \* rank -> self.param_gbuf_map
    opt_group_shards,   \* rank -> self.opt_group_shards
    model_params,       \* rank -> param -> the parameter tensor, flattened
    main_param,         \* rank -> retained group -> the flat master parameter
    main_grad,          \* rank -> retained group -> the master parameter's .grad
    grad_buffers,       \* rank -> buffer -> model._grad_buffers[dtype].data
    grad_scaler,        \* rank -> self.grad_scaler
    found_inf,          \* rank -> self.found_inf
    step_result,        \* rank -> what the last call of step() returned
    pc,                 \* rank -> where the rank is in the training iteration
    iteration,          \* the number of iterations started
    iter_start,         \* the inputs and the state at the start of the iteration
    rep_main_params,    \* replicated variant: rank -> param -> fp32 master copy
    rep_model_params,   \* replicated variant: rank -> param -> parameter tensor
    rep_grad_buffers,   \* replicated variant: rank -> buffer -> grad buffer
    rep_grad_scaler,    \* replicated variant: rank -> self.grad_scaler
    rep_step_result,    \* replicated variant: rank -> what step() returned
    rep_pc,             \* replicated variant: rank -> position in the iteration
    args,               \* the pipeline configuration (get_args(), mpu, the model)
    peer,               \* the other pipeline stage of the embedding group
    rs_begin,           \* the grad buffers when the reduce-scatter section began
    trace,              \* rank -> the operations of the current iteration, in order
    raised,             \* rank -> the exception a handler raised, per variant
    cfg,                \* the arguments of __init__: bf16, grad_scaler, param types
    param_grad,         \* rank -> param -> model_param.grad ("none" or a tensor)
    ckpt,               \* replicated variant: the last call of load_state_dict
    rep_optimizer_state, \* replicated variant: rank -> self.optimizer.state_dict()
    fp32,               \* FP32Optimizer: its arguments and, per rank, its state
    pqs,                \* PQsIndex.create_partial_indexes: files and ranks
    db                  \* merge_dbs: the merged chunk db file and the ranks

layout_vars == <<world_size, models, param_groups>>

shard_vars == <<model_gbuf_shards, param_gbuf_map, opt_group_shards>>

rep_vars == <<rep_main_params, rep_model_params, rep_grad_buffers,
              rep_grad_scaler, rep_step_result, rep_pc>>

pipe_vars == <<args, peer, rs_begin>>

other_vars == <<fp32, pqs, db>>

aux_vars == <<cfg, param_grad, ckpt, rep_optimizer_state, other_vars>>

vars == <<layout_vars, shard_vars, constructed, model_params, main_param,
          main_grad, grad_buffers, grad_scaler, found_inf, step_result, pc,
          iteration, iter_start, rep_vars, pipe_vars, trace, raised, aux_vars>>

\* The state of the optimizers of megatron/optimizer.
optimizer_vars == <<layout_vars, shard_vars, constructed, model_params,
                    main_param, main_grad, grad_buffers, grad_scaler, found_inf,
                    step_result, pc, iteration, iter_start, rep_vars, pipe_vars,
                    trace, raised, cfg, param_grad, ckpt, rep_optimizer_state>>

Ranks == 0..(world_size - 1)

\* A call that has not returned.
NoResult ==
    [returned |-> FALSE, success |-> FALSE, grad_norm |-> "none",
     num_zeros_in_grad |-> "none"]

\* No handler of either variant has raised.
NothingRaised == [distributed |-> "", replicated |-> ""]

\* ------------------------------------------------- arguments of __init__

\* param.type() of the wrapped parameters.
HalfTensor == "torch.cuda.HalfTensor"

BFloat16Tensor == "torch.cuda.BFloat16Tensor"

FloatTensor == "torch.cuda.FloatTensor"

DoubleTensor == "torch.cuda.DoubleTensor"

\* The arguments of a half-precision run with a dynamic grad scaler.
Float16Config(gbufs) ==
    [bf16               |-> FALSE,
     grad_scaler_is_none |-> FALSE,
     param_type         |-> [p \in AllParams(gbufs) |-> HalfTensor]]

\* model_param.grad is None; model_param.grad is a tensor.
NoGrad == [is_none |-> TRUE, data |-> << >>]

SomeGrad(t) == [is_none |-> FALSE, data |-> t]

\* An entry of a state dict: the key is absent, or holds a value.
Missing(v) == [present |-> FALSE, value |-> v]

Holds(v) == [present |-> TRUE, value |-> v]

\* A dict without any of the keys load_state_dict reads.
EmptyStateDict ==
    [optimizer             |-> Missing(0),
     optimizer_state_dict  |-> Missing(0),
     grad_scaler           |-> Missing([scale |-> Fin(1), growth_tracker |-> 0]),
     fp32_from_fp16_params |-> Missing(<< >>),
     fp32_from_fp16        |-> Missing(<< >>)]

\* No method of the checkpoint interface has been called.
NoCall(w) ==
    [last_call  |-> "none",
     kind       |-> "none",
     state_dict |-> [r \in 0..(w - 1) |-> EmptyStateDict],
     before     |-> [main_params |-> [r \in 0..(w - 1) |-> << >>],
                     grad_scaler |-> [r \in 0..(w - 1) |->
                                         [scale |-> Fin(1), growth_tracker |-> 0]]],
     warnings   |-> {}]

\* What step() of the FP32 optimizer has not returned yet.
FP32NoResult ==
    [returned |-> FALSE, success |-> FALSE, grad_norm |-> Missing(Fin(0)),
     num_zeros_in_grad |-> Missing(0)]

\* No FP32Optimizer is in use.
NoFP32(w) ==
    [clip_grad             |-> 0,
     log_num_zeros_in_grad |-> FALSE,
     params_have_main_grad |-> FALSE,
     use_contiguous_buffers_in_local_ddp |-> FALSE,
     param       |-> [r \in 0..(w - 1) |-> << >>],
     grad        |-> [r \in 0..(w - 1) |-> NoGrad],
     main_grad   |-> [r \in 0..(w - 1) |-> NoGrad],
     pc          |-> [r \in 0..(w - 1) |-> "none"],
     calls       |-> [r \in 0..(w - 1) |-> 0],
     inner_steps |-> [r \in 0..(w - 1) |-> 0],
     result      |-> [r \in 0..(w - 1) |-> FP32NoResult],
     raised      |-> [r \in 0..(w - 1) |-> ""]]

\* No PQsIndex is building partial indexes.
NoPQs(w) ==
    [n_paths   |-> 0,
     dir0      |-> {},
     dir       |-> {},
     pc        |-> [r \in 0..(w - 1) |-> "none"],
     missing   |-> [r \in 0..(w - 1) |-> << >>],
     saw       |-> [r \in 0..(w - 1) |-> {}],
     completed |-> [r \in 0..(w - 1) |-> << >>]]

\* No merged chunk db is being built.
NoDB(w) ==
    [db_type |-> "none",
     infos   |-> << >>,
     initial |-> [state |-> "absent", n_alloc |-> 0, n_written |-> 0],
     file    |-> [state |-> "absent", n_alloc |-> 0, n_written |-> 0],
     removed |-> FALSE,
     built   |-> FALSE,
     pc      |-> [r \in 0..(w - 1) |-> "none"],
     raised  |-> [r \in 0..(w - 1) |-> ""]]

\* The optimizers of the other runs are not in use.
NoOtherRun(w) == fp32 = NoFP32(w) /\ pqs = NoPQs(w) /\ db = NoDB(w)

\* A half-precision run with a grad scaler, no gradient on the parameters, a
\* fresh inner optimizer.
Float16Run(w, gbufs) ==
    /\ cfg = Float16Config(gbufs)
    /\ param_grad = [r \in 0..(w - 1) |-> [p \in AllParams(gbufs) |-> NoGrad]]
    /\ ckpt = NoCall(w)
    /\ rep_optimizer_state = [r \in 0..(w - 1) |-> 0]
    /\ NoOtherRun(w)

\* BaseFloat16Optimizer.__init__: "None grad scaler is only supported for
\* bf16": the assertion fails for a half-precision run without a scaler.
expects_a_grad_scaler == cfg.grad_scaler_is_none /\ ~cfg.bf16

\* The mutant of has_grad_scaler: step() takes the scaler's branch always.
has_grad_scaler_always == TRUE

\* step(): `if self.grad_scaler:`
has_grad_scaler == ~cfg.grad_scaler_is_none

RECURSIVE wrap_params_from(_, _)
\* Float16OptimizerWithFloat16Params.__init__, the loops over the groups and
\* their parameters from the k-th parameter on: a float16 parameter gets an
\* fp32 clone, an fp32 parameter reaches pax(0, {...}), which ends the
\* process, any other type raises TypeError.
wrap_params_from(params, k) ==
    IF k > Len(params) THEN "ok"
    ELSE IF cfg.param_type[params[k]] \in {HalfTensor, BFloat16Tensor}
         THEN wrap_params_from(params, k + 1)
         ELSE IF cfg.param_type[params[k]] = FloatTensor THEN "pax"
              ELSE "TypeError"

\* The parameters of all groups, in the order __init__ visits them.
params_in_group_order(groups) ==
    Flatten([g \in 1..Len(groups) |-> groups[g].params])

\* The loss scale the training run starts from.
initial_scale == Fin(1)

\* The grad scaler handed to the optimizer: a dynamic scaler at initial_scale.
MkGradScaler(scale) == [scale |-> scale, growth_tracker |-> 0]

\* Float16DistributedOptimizer.__init__ on rank r: the base class asserts
\* that a half-precision run has a grad scaler; the shard maps, the group
\* shards and the master parameters follow.  No parameter type is looked at.
Construct(r) ==
    /\ r \in Ranks \ constructed
    /\ pc[r] = "new"
    /\ IF expects_a_grad_scaler
       THEN /\ pc' = [pc EXCEPT ![r] = "failed"]
            /\ raised' = [raised EXCEPT
                              ![r].distributed = "fp16 expects a grad scaler."]
            /\ UNCHANGED <<shard_vars, main_grad, main_param, constructed,
                           found_inf>>
       ELSE /\ LET gbuf_shards == get_model_gbuf_shard_maps(models, r, world_size)
                   gbuf_map == get_param_gbuf_map(gbuf_shards)
                   group_shards == get_optimizer_group_shards(param_groups,
                                                              gbuf_shards)
                   mains == allocate_main_param_shards(group_shards)
               IN  /\ model_gbuf_shards' = [model_gbuf_shards EXCEPT ![r] = gbuf_shards]
                   /\ param_gbuf_map' = [param_gbuf_map EXCEPT ![r] = gbuf_map]
                   /\ opt_group_shards' = [opt_group_shards EXCEPT ![r] = group_shards]
                   /\ main_grad' = [main_grad EXCEPT ![r] = mains]
                   /\ main_param' = [main_param EXCEPT ![r] =
                          copy_model_params_to_main_params(mains, group_shards,
                              gbuf_map, gbuf_shards, model_params[r])]
            /\ constructed' = constructed \cup {r}
            /\ found_inf' = [found_inf EXCEPT ![r] = 0]
            /\ pc' = [pc EXCEPT ![r] = "ready"]
            /\ UNCHANGED raised
    /\ UNCHANGED <<layout_vars, model_params, grad_buffers, grad_scaler,
                   step_result, iteration, iter_start, rep_vars, pipe_vars,
                   trace>>
    /\ UNCHANGED aux_vars

\* args.DDP_impl: the local data-parallel wrapper with contiguous grad buffers
\* (the distributed optimizer supports no other).
DDP_impl == "local"

\* args.pipeline_model_parallel_split_rank is None.
NoSplitRank == -1

\* One pipeline stage: the rank is the first and the last stage, so it is in
\* the embedding groups; no split rank.
SingleStage ==
    [pipeline_model_parallel_world_size  |-> 1,
     in_embedding_group                  |-> TRUE,
     share_word_embeddings               |-> TRUE,
     in_position_embedding_group         |-> TRUE,
     pipeline_model_parallel_split_rank  |-> NoSplitRank,
     word_embeddings_weight              |-> 1,
     peer_word_embeddings_weight         |-> 0]

\* No other stage.
NoPeer(w) ==
    [models            |-> << >>,
     model_gbuf_shards |-> [r \in 0..(w - 1) |-> << >>],
     grad_buffers      |-> [r \in 0..(w - 1) |-> << >>],
     rep_grad_buffers  |-> [r \in 0..(w - 1) |-> << >>],
     reduced           |-> FALSE]

NoSnapshot == [taken |-> FALSE, local |-> << >>, peer |-> << >>]

\* A run on one pipeline stage.
NoPipeline(w) ==
    /\ args = SingleStage
    /\ peer = NoPeer(w)
    /\ rs_begin = NoSnapshot

\* The state before any optimizer is constructed, for one configuration:
\* every replica holds the same weights, the grad buffers are zeroed.
InitConfig(w, gbufs, groups, scale) ==
    /\ world_size = w
    /\ models = gbufs
    /\ param_groups = groups
    /\ constructed = {}
    /\ model_gbuf_shards = [r \in 0..(w - 1) |-> << >>]
    /\ param_gbuf_map = [r \in 0..(w - 1) |-> << >>]
    /\ opt_group_shards = [r \in 0..(w - 1) |-> << >>]
    /\ model_params = [r \in 0..(w - 1) |-> InitModelParams(gbufs)]
    /\ main_param = [r \in 0..(w - 1) |-> << >>]
    /\ main_grad = [r \in 0..(w - 1) |-> << >>]
    /\ grad_buffers = [r \in 0..(w - 1) |-> ZeroBuffers(gbufs)]
    /\ grad_scaler = [r \in 0..(w - 1) |-> MkGradScaler(scale)]
    /\ found_inf = [r \in 0..(w - 1) |-> 0]
    /\ step_result = [r \in 0..(w - 1) |-> NoResult]
    /\ pc = [r \in 0..(w - 1) |-> "new"]
    /\ iteration = 0
    /\ iter_start = [grads       |-> [r \in 0..(w - 1) |-> ZeroBuffers(gbufs)],
                     scale        |-> [r \in 0..(w - 1) |-> scale],
                     model_params |-> [r \in 0..(w - 1) |-> InitModelParams(gbufs)],
                     main_param   |-> [r \in 0..(w - 1) |-> << >>],
                     peer_grads   |-> [r \in 0..(w - 1) |-> << >>]]
    /\ rep_main_params = [r \in 0..(w - 1) |-> << >>]
    /\ rep_model_params = [r \in 0..(w - 1) |-> InitModelParams(gbufs)]
    /\ rep_grad_buffers = [r \in 0..(w - 1) |-> ZeroBuffers(gbufs)]
    /\ rep_grad_scaler = [r \in 0..(w - 1) |-> MkGradScaler(scale)]
    /\ rep_step_result = [r \in 0..(w - 1) |-> NoResult]
    /\ rep_pc = [r \in 0..(w - 1) |-> "new"]
    /\ trace = [r \in 0..(w - 1) |-> << >>]
    /\ raised = [r \in 0..(w - 1) |-> NothingRaised]

\* Construction over every bounded buffer length, world size, parameter
\* layout and grouping.
InitPartition ==
    \E w \in 1..MaxW, shapes \in BufShapeLists, rev \in BOOLEAN,
       pattern \in GroupPatterns :
        /\ InitConfig(w, MkGbufs(shapes, rev),
                      MkParamGroups(MkGbufs(shapes, rev), pattern), initial_scale)
        /\ NoPipeline(w)
        /\ Float16Run(w, MkGbufs(shapes, rev))

NextPartition == \E r \in Ranks : Construct(r)

SpecPartition == InitPartition /\ [][NextPartition]_vars

\* ------------------------------------------------- claims on the partitioner

\* The index range [start, end) of an index-map item.
ItemIdx(e) == e.start..(e.end - 1)

\* The constructed ranks' grad-buffer records.
BuiltShards == {<<r, b>> : r \in constructed, b \in 1..Len(models)}

\* C1: for every grad-buffer length N >= 1 and world size W >= 1 the W world
\* shards world_all[0..W-1] are pairwise disjoint and their union is exactly
\* [0, N).
C1_WorldShardsPartition ==
    \A rb \in BuiltShards :
        LET wa == model_gbuf_shards[rb[1]][rb[2]].world_all
        IN  /\ DOMAIN wa = Ranks
            /\ UNION {ShardIdx(wa[q]) : q \in Ranks} = 0..(models[rb[2]].numel - 1)
            /\ \A q1, q2 \in Ranks :
                   q1 # q2 => ShardIdx(wa[q1]) \cap ShardIdx(wa[q2]) = {}

\* A rank was constructed over a buffer whose length the world size does not
\* divide, with more than one rank.
C1_Witness ==
    \E rb \in BuiltShards :
        /\ world_size > 1
        /\ models[rb[2]].numel % world_size # 0
        /\ models[rb[2]].numel > world_size

\* Every range of a constructed rank: world_all, local, the three ranges of
\* each param-map entry, and the master ranges.
AllRangesOf(r) ==
    UNION {{model_gbuf_shards[r][b].world_all[q] : q \in Ranks}
           \cup {model_gbuf_shards[r][b].local, model_gbuf_shards[r][b].world}
           \cup UNION {{model_gbuf_shards[r][b].param_map[k].gbuf_world,
                        model_gbuf_shards[r][b].param_map[k].gbuf_local,
                        model_gbuf_shards[r][b].param_map[k].param} :
                           k \in 1..Len(model_gbuf_shards[r][b].param_map)} :
               b \in 1..Len(models)}
    \cup UNION {{opt_group_shards[r][g].param_map[k].shard :
                    k \in 1..Len(opt_group_shards[r][g].param_map)} :
                    g \in 1..Len(opt_group_shards[r])}

\* C2: every Shard built by the partitioner and the allocator has
\* end >= start (size >= 0), also when N < W or W does not divide N: shards
\* beyond the end of the buffer are empty, never of negative size.
C2_NoNegativeShard ==
    \A r \in constructed : \A s \in AllRangesOf(r) : s.end >= s.start /\ s.size >= 0

\* C3: every entry of a rank's param_map has three ranges of the same size,
\* and that size is > 0; a parameter whose buffer range does not intersect the
\* rank's world shard has no entry.
C3_EntrySizes ==
    \A rb \in BuiltShards :
        LET sh == model_gbuf_shards[rb[1]][rb[2]]
            im == models[rb[2]].param_index_map
        IN  /\ \A k \in 1..Len(sh.param_map) :
                   /\ sh.param_map[k].gbuf_world.size = sh.param_map[k].gbuf_local.size
                   /\ sh.param_map[k].gbuf_local.size = sh.param_map[k].param.size
                   /\ sh.param_map[k].param.size > 0
            /\ \A j \in 1..Len(im) :
                   ItemIdx(im[j]) \cap ShardIdx(sh.world) = {}
                       => im[j].key \notin Keys(sh.param_map)

\* A rank holds an entry for one parameter of a buffer and none for another.
C3_Witness ==
    \E rb \in BuiltShards :
        LET sh == model_gbuf_shards[rb[1]][rb[2]]
        IN  /\ Len(sh.param_map) = 1
            /\ Len(models[rb[2]].param_index_map) = 2

\* C4: for a parameter [p0, p1) that intersects the local world shard
\* [s0, s1): gbuf_world = [max(p0,s0), min(p1,s1)); gbuf_local is that interval
\* shifted by -s0, starts at max(0, p0-s0) and lies in [0, s1-s0); param =
\* [max(0, s0-p0), max(0, s0-p0) + size) and lies in [0, p1-p0).
C4_EntryRanges ==
    \A rb \in BuiltShards :
        LET sh == model_gbuf_shards[rb[1]][rb[2]]
            im == models[rb[2]].param_index_map
            s0 == sh.world.start
            s1 == sh.world.end
        IN  \A j \in 1..Len(im) :
                ItemIdx(im[j]) \cap ShardIdx(sh.world) # {} =>
                    /\ im[j].key \in Keys(sh.param_map)
                    /\ LET e == Lookup(sh.param_map, im[j].key)
                           p0 == im[j].start
                           p1 == im[j].end
                       IN  /\ e.gbuf_world = Shard(Max(p0, s0), Min(p1, s1))
                           /\ e.gbuf_local = Shard(e.gbuf_world.start - s0,
                                                   e.gbuf_world.end - s0)
                           /\ e.gbuf_local.start = Max(0, p0 - s0)
                           /\ 0 <= e.gbuf_local.start
                           /\ e.gbuf_local.end <= s1 - s0
                           /\ e.param = Shard(Max(0, s0 - p0),
                                              Max(0, s0 - p0) + e.gbuf_world.size)
                           /\ 0 <= e.param.start
                           /\ e.param.end <= p1 - p0

\* A parameter that starts before the rank's world shard and ends inside or
\* after it: its sub-range does not start at 0.
C4_Witness ==
    \E rb \in BuiltShards :
        \E k \in 1..Len(model_gbuf_shards[rb[1]][rb[2]].param_map) :
            /\ model_gbuf_shards[rb[1]][rb[2]].param_map[k].param.start > 0
            /\ model_gbuf_shards[rb[1]][rb[2]].param_map[k].gbuf_local.start = 0

\* The ranks that hold an entry for parameter p, and the entry.
Owners(p) == {r \in Ranks : p \in Keys(model_gbuf_shards[r][ParamBuf(models, p)].param_map)}

EntryOf(r, p) == Lookup(model_gbuf_shards[r][ParamBuf(models, p)].param_map, p)

\* C5: every element of every parameter is owned by exactly one rank: the
\* `param` sub-ranges recorded for it over the ranks are pairwise disjoint and
\* their union is [0, p1-p0); the gbuf_world ranges partition [p0, p1).
C5_ExactlyOneOwner ==
    constructed = Ranks =>
        \A p \in AllParams(models) :
            /\ UNION {ShardIdx(EntryOf(r, p).param) : r \in Owners(p)}
                   = 0..(ParamNumel(models, p) - 1)
            /\ UNION {ShardIdx(EntryOf(r, p).gbuf_world) : r \in Owners(p)}
                   = ItemIdx(ParamRange(models, p))
            /\ \A r1, r2 \in Owners(p) :
                   r1 # r2 =>
                       /\ ShardIdx(EntryOf(r1, p).param)
                              \cap ShardIdx(EntryOf(r2, p).param) = {}
                       /\ ShardIdx(EntryOf(r1, p).gbuf_world)
                              \cap ShardIdx(EntryOf(r2, p).gbuf_world) = {}

\* Every rank is constructed and some parameter is split between two ranks.
C5_Witness ==
    /\ constructed = Ranks
    /\ \E p \in AllParams(models) : Cardinality(Owners(p)) >= 2

\* The keys of the param-map entries of all buffers that belong to the
\* original group og, in iteration order over (model index, dtype, parameter).
RECURSIVE KeysOfGroupFrom(_, _, _)
KeysOfGroupFrom(entries, k, og) ==
    IF k > Len(entries) THEN << >>
    ELSE (IF param_group_map_of(param_groups)[entries[k].key] = og
          THEN <<entries[k].key>> ELSE << >>)
         \o KeysOfGroupFrom(entries, k + 1, og)

\* C6: for every retained master group, the group size is the sum of the
\* sizes of the ranges of its param_map, every master range lies inside
\* [0, group_size), the ranges are pairwise disjoint, and they are laid out
\* contiguously from 0 in iteration order over (model index, dtype, parameter).
C6_GroupLayout ==
    \A r \in constructed : \A g \in 1..Len(opt_group_shards[r]) :
        LET gs == opt_group_shards[r][g]
            pm == gs.param_map
        IN  /\ gs.size = SumSeq([k \in 1..Len(pm) |-> pm[k].shard.size])
            /\ \A k \in 1..Len(pm) :
                   /\ 0 <= pm[k].shard.start
                   /\ pm[k].shard.end <= gs.size
                   /\ pm[k].shard.start = (IF k = 1 THEN 0 ELSE pm[k - 1].shard.end)
            /\ \A k1, k2 \in 1..Len(pm) :
                   k1 # k2 => ShardIdx(pm[k1].shard) \cap ShardIdx(pm[k2].shard) = {}
            /\ [k \in 1..Len(pm) |-> pm[k].key]
                   = KeysOfGroupFrom(all_param_map_entries(model_gbuf_shards[r]),
                                     1, gs.orig_group)

\* A retained group holds parameters of two different grad buffers.
C6_Witness ==
    \E r \in constructed : \E g \in 1..Len(opt_group_shards[r]) :
        \E k1, k2 \in 1..Len(opt_group_shards[r][g].param_map) :
            ParamBuf(models, opt_group_shards[r][g].param_map[k1].key)
                # ParamBuf(models, opt_group_shards[r][g].param_map[k2].key)

\* The number of parameter elements inside rank r's world shards.
OwnedElements(r) ==
    SumSeq([b \in 1..Len(models) |->
        SumSeq([j \in 1..Len(models[b].param_index_map) |->
            Cardinality(ItemIdx(models[b].param_index_map[j])
                        \cap ShardIdx(model_gbuf_shards[r][b].world))])])

\* C7: on every rank the total master-state length (the sum of group_size
\* over the retained groups, which is the length of the allocated master
\* parameters and of their gradients) is the number of parameter elements
\* inside the rank's world shards, and at most the sum of ceil(N/W) over the
\* buffers.
C7_MasterLength ==
    \A r \in constructed :
        LET total == SumSeq([g \in 1..Len(opt_group_shards[r]) |->
                                opt_group_shards[r][g].size])
        IN  /\ total = OwnedElements(r)
            /\ total <= SumSeq([b \in 1..Len(models) |->
                                   max_gbuf_shard_size(models[b].numel, world_size)])
            /\ \A g \in 1..Len(opt_group_shards[r]) :
                   /\ TensorLen(main_param[r][g]) = opt_group_shards[r][g].size
                   /\ TensorLen(main_grad[r][g]) = opt_group_shards[r][g].size

\* A rank that owns a part, not the whole, of the parameters' elements, among
\* them the tail of a parameter that starts on an earlier rank.
C7_Witness ==
    \E r \in constructed :
        /\ OwnedElements(r) > 0
        /\ OwnedElements(r) < SumSeq([b \in 1..Len(models) |->
               SumSeq([j \in 1..Len(models[b].param_index_map) |->
                   Cardinality(ItemIdx(models[b].param_index_map[j]))])])
        /\ \E b \in 1..Len(models) :
               \E k \in 1..Len(model_gbuf_shards[r][b].param_map) :
                   model_gbuf_shards[r][b].param_map[k].param.start > 0

\* ---------------------------------------------------------------- loss scaler

\* megatron/optimizer/grad_scaler.py (DynamicGradScaler): the policy of the
\* controller, with a growth interval of one step.
backoff_factor == Rat(1, 2)

growth_factor == Fin(2)

growth_interval == 1

\* grad_scaler.update(found_inf): on overflow the scale is multiplied by the
\* backoff factor; after growth_interval steps without overflow it is
\* multiplied by the growth factor.
grad_scaler_update(scaler, found_inf_flag) ==
    IF found_inf_flag
    THEN [scale |-> Mul(scaler.scale, backoff_factor), growth_tracker |-> 0]
    ELSE IF scaler.growth_tracker + 1 = growth_interval
         THEN [scale |-> Mul(scaler.scale, growth_factor), growth_tracker |-> 0]
         ELSE [scaler EXCEPT !.growth_tracker = @ + 1]

\* grad_scaler.inv_scale
inv_scale(scaler) == Inv(scaler.scale)

\* ------------------------------------------------------------ inner optimizer

\* The learning rate of the inner optimizer.
lr == Rat(1, 10)

\* self.optimizer.step() of plain SGD: p <- p - lr * p.grad for every
\* parameter the optimizer holds.
optimizer_step(params, grads) ==
    [g \in DOMAIN params |->
        [i \in DOMAIN params[g] |-> Sub(params[g][i], Mul(lr, grads[g][i]))]]

\* ---------------------------------------------------------------- collectives

RECURSIVE SumUpTo(_, _)
\* f[0] + ... + f[n]
SumUpTo(f, n) == IF n = 0 THEN f[0] ELSE Add(SumUpTo(f, n - 1), f[n])

\* The mutant of div_by_world_size: the buffer is not divided.
div_by_world_size_skip(gbuf, data_parallel_world_size) == gbuf

\* gbuf /= data_parallel_world_size
div_by_world_size(gbuf, data_parallel_world_size) ==
    [i \in DOMAIN gbuf |-> Mul(gbuf[i], Rat(1, data_parallel_world_size))]

\* get_model_grad_buffer_dp_views: for every grad buffer the list world_all;
\* the view of rank q is the buffer sliced at world_all[q].
get_model_grad_buffer_dp_views(gbuf_shards) ==
    [b \in 1..Len(gbuf_shards) |-> gbuf_shards[b].world_all]

\* The number of elements of the view gbuf[s.start:s.end].
ViewLen(gbuf, s) == Cardinality(SliceIdx(s.start, s.end, TensorLen(gbuf)))

\* torch.distributed.reduce_scatter and all_gather reject a tensor list with
\* an operand whose number of elements differs from that of the single tensor.
views_conform(gbuf, gbuf_views, data_parallel_rank) ==
    \A q \in DOMAIN gbuf_views :
        ViewLen(gbuf, gbuf_views[q]) = ViewLen(gbuf, gbuf_views[data_parallel_rank])

RECURSIVE first_nonconforming(_, _, _, _)
\* The first grad buffer from the b-th on whose views do not conform, or 0.
first_nonconforming(gbufs, gbuf_view_items, data_parallel_rank, b) ==
    IF b > Len(gbufs) THEN 0
    ELSE IF ~views_conform(gbufs[b], gbuf_view_items[b], data_parallel_rank) THEN b
    ELSE first_nonconforming(gbufs, gbuf_view_items, data_parallel_rank, b + 1)

\* torch.distributed.reduce_scatter(gbuf_views[rank], gbuf_views) on `rank`:
\* bufs[q] is the buffer of rank q and views[q] its list of views; the view
\* of `rank` receives the elementwise sum of every rank's view number `rank`.
reduce_scatter(bufs, views, rank) ==
    [i \in DOMAIN bufs[rank] |->
        IF i \in SliceIdx(views[rank][rank].start, views[rank][rank].end,
                          TensorLen(bufs[rank]))
        THEN SumUpTo([q \in DOMAIN bufs |->
                         bufs[q][views[q][rank].start
                                 + (i - views[rank][rank].start)]],
                     Cardinality(DOMAIN bufs) - 1)
        ELSE bufs[rank][i]]

\* The rank whose view holds index i of the buffer.
ViewOwner(gbuf, gbuf_views, i) ==
    CHOOSE q \in DOMAIN gbuf_views :
        i \in SliceIdx(gbuf_views[q].start, gbuf_views[q].end, TensorLen(gbuf))

\* torch.distributed.all_gather(gbuf_views, gbuf_views[rank]) on `rank`: view
\* number q receives the own view of rank q.
all_gather(bufs, views, rank) ==
    [i \in DOMAIN bufs[rank] |->
        IF \E q \in DOMAIN bufs :
               i \in SliceIdx(views[rank][q].start, views[rank][q].end,
                              TensorLen(bufs[rank]))
        THEN bufs[ViewOwner(bufs[rank], views[rank], i)]
                 [views[ViewOwner(bufs[rank], views[rank], i)]
                       [ViewOwner(bufs[rank], views[rank], i)].start
                  + (i - views[rank][ViewOwner(bufs[rank], views[rank], i)].start)]
        ELSE bufs[rank][i]]

\* model_module.allreduce_gradients() of the data-parallel wrapper with a
\* contiguous buffer: the buffer is divided by the world size and all-reduced.
allreduce_gradients(bufs, rank) ==
    [i \in DOMAIN bufs[rank] |->
        SumUpTo([q \in DOMAIN bufs |->
                    Mul(bufs[q][i], Rat(1, Cardinality(DOMAIN bufs)))],
                Cardinality(DOMAIN bufs) - 1)]

\* ------------------------------------------- distributed optimizer: the step

\* The mutant of model_shard_of_copy_in: the range inside the parameter.
model_shard_of_copy_in_param(entry) == entry.param

\* _copy_model_grads_to_main_grads: model_shard = ...["gbuf_world"]
model_shard_of_copy_in(entry) == entry.gbuf_world

RECURSIVE copy_model_grads_to_main_group(_, _, _, _, _, _)
\* The inner loop of _copy_model_grads_to_main_grads for one group.
copy_model_grads_to_main_group(grad, group_shard, k, gbuf_map, gbuf_shards, gbufs) ==
    IF k > Len(group_shard.param_map) THEN grad
    ELSE LET model_param == group_shard.param_map[k].key
             main_shard == group_shard.param_map[k].shard
             model_shard == model_shard_of_copy_in(
                                Lookup(gbuf_shards[gbuf_map[model_param]].param_map,
                                       model_param))
         IN  copy_model_grads_to_main_group(
                 CopySlice(grad, main_shard.start, gbufs[gbuf_map[model_param]],
                           model_shard.start, model_shard.size),
                 group_shard, k + 1, gbuf_map, gbuf_shards, gbufs)

\* The mutant of copy_model_grads_to_main_grads: every main grad is assigned
\* a fresh tensor, one element longer than the group's shard.
copy_model_grads_to_main_grads_reallocating(grads, group_shards, gbuf_map, gbuf_shards, gbufs) ==
    [g \in 1..Len(group_shards) |->
        [i \in 0..group_shards[g].size |->
            IF i < group_shards[g].size
            THEN copy_model_grads_to_main_group(grads[g], group_shards[g], 1,
                                                gbuf_map, gbuf_shards, gbufs)[i]
            ELSE Fin(0)]]

\* Float16DistributedOptimizer._copy_model_grads_to_main_grads
copy_model_grads_to_main_grads(grads, group_shards, gbuf_map, gbuf_shards, gbufs) ==
    [g \in 1..Len(group_shards) |->
        copy_model_grads_to_main_group(grads[g], group_shards[g], 1,
                                       gbuf_map, gbuf_shards, gbufs)]

\* The (group_index, model_param, main_shard) triples in the order of the two
\* loops over opt_group_shards and param_map.
group_items(group_shards) ==
    Flatten([g \in 1..Len(group_shards) |->
                [k \in 1..Len(group_shards[g].param_map) |->
                    [group_index |-> g,
                     key         |-> group_shards[g].param_map[k].key,
                     shard       |-> group_shards[g].param_map[k].shard]]])

\* The mutant of model_shard_of_copy_out: the range local to the rank's shard.
model_shard_of_copy_out_local(entry) == entry.gbuf_local

\* _copy_main_params_to_model_params: model_shard = ...["gbuf_world"]
model_shard_of_copy_out(entry) == entry.gbuf_world

RECURSIVE copy_main_params_to_model_from(_, _, _, _, _, _)
\* The loops of _copy_main_params_to_model_params from the k-th triple on.
copy_main_params_to_model_from(gbufs, items, k, gbuf_map, gbuf_shards, mains) ==
    IF k > Len(items) THEN gbufs
    ELSE LET model_param == items[k].key
             main_shard == items[k].shard
             model_shard == model_shard_of_copy_out(
                                Lookup(gbuf_shards[gbuf_map[model_param]].param_map,
                                       model_param))
         IN  copy_main_params_to_model_from(
                 [gbufs EXCEPT ![gbuf_map[model_param]] =
                     CopySlice(gbufs[gbuf_map[model_param]], model_shard.start,
                               mains[items[k].group_index], main_shard.start,
                               model_shard.size)],
                 items, k + 1, gbuf_map, gbuf_shards, mains)

\* Float16DistributedOptimizer._copy_main_params_to_model_params: the master
\* parameters are staged in the grad buffers.
copy_main_params_to_model_params(gbufs, group_shards, gbuf_map, gbuf_shards, mains) ==
    copy_main_params_to_model_from(gbufs, group_items(group_shards), 1,
                                   gbuf_map, gbuf_shards, mains)

\* torch._amp_foreach_non_finite_check_and_unscale_: found_inf is set when any
\* element of any tensor is inf, -inf or nan.
has_non_finite(tensors) ==
    \E g \in DOMAIN tensors : \E i \in DOMAIN tensors[g] :
        IsNonFinite(tensors[g][i])

\* torch._amp_foreach_non_finite_check_and_unscale_: every element is
\* multiplied by inv_scale.
unscale(tensors, inv) ==
    [g \in DOMAIN tensors |->
        [i \in DOMAIN tensors[g] |-> Mul(tensors[g][i], inv)]]

\* self.clip_grad of the configuration (positive: clipping is requested).
clip_grad == 1

\* clip_grad_norm(clip_grad, ITERATION) returns at once, without a value.
clip_grad_norm(max_norm) == "none"

\* num_zeros_in_grad with log_num_zeros_in_grad off.
num_zeros_in_grad == "none"

\* `return True, grad_norm, num_zeros_in_grad`
SuccessResult ==
    [returned |-> TRUE, success |-> TRUE, grad_norm |-> clip_grad_norm(clip_grad),
     num_zeros_in_grad |-> num_zeros_in_grad]

\* What `return False, None, None` hands back.
SkippedResult ==
    [returned |-> TRUE, success |-> FALSE, grad_norm |-> "none",
     num_zeros_in_grad |-> "none"]

\* param.main_grad: the view of the parameter's slot in its grad buffer.
param_main_grad(gbuf_layout, gbufs, p) ==
    [i \in 0..(ParamNumel(gbuf_layout, p) - 1) |->
        gbufs[ParamBuf(gbuf_layout, p)][ParamRange(gbuf_layout, p).start + i]]

\* ------------------------------------------------------------------- backward

\* The gradients a backward pass leaves: the same on every rank and element,
\* or different on every rank and element.
GradPatterns == {"ones", "per_rank"}

GradValue(pattern, r, i) ==
    IF pattern = "ones" THEN Fin(1) ELSE Fin((r + 1) * (i + 1))

\* Index i of the buffer lies in the slot of some parameter.
InParamSlot(gbuf, i) ==
    \E k \in 1..Len(gbuf.param_index_map) :
        gbuf.param_index_map[k].start <= i /\ i < gbuf.param_index_map[k].end

NonFiniteValues == {PosInf, NegInf, NaN}

NoInjection == [rank |-> -1, buffer |-> 0, index |-> 0, value |-> Fin(0)]

\* One non-finite value in one element of one grad buffer of one rank.
Injections ==
    UNION {{[rank |-> r, buffer |-> b, index |-> i, value |-> v] :
               r \in Ranks, i \in 0..(models[b].numel - 1), v \in NonFiniteValues} :
           b \in 1..Len(models)}

\* The grad buffers after the backward pass of a loss multiplied by the loss
\* scale: the scaled gradient in every parameter slot, zero elsewhere, and
\* the injected value where there is one.
BackwardBuffers(pattern, inj, scalers) ==
    [r \in Ranks |->
        [b \in 1..Len(models) |->
            [i \in 0..(models[b].numel - 1) |->
                IF inj.rank = r /\ inj.buffer = b /\ inj.index = i THEN inj.value
                ELSE IF InParamSlot(models[b], i)
                     THEN Mul(scalers[r].scale, GradValue(pattern, r, i))
                     ELSE Fin(0)]]]

\* ------------------------------------------------------------ pipeline stages

\* reduce_grads: the condition of the word-embedding all-reduce,
\* is_rank_in_embedding_group and pipeline world size > 1 and
\* unwrapped_model.share_word_embeddings.
syncs_word_embeddings ==
    /\ args.in_embedding_group
    /\ args.pipeline_model_parallel_world_size > 1
    /\ args.share_word_embeddings

\* reduce_grads: the condition of the position-embedding (T5) branch.
syncs_position_embeddings ==
    /\ args.in_position_embedding_group
    /\ args.pipeline_model_parallel_world_size > 1
    /\ args.pipeline_model_parallel_split_rank # NoSplitRank

\* The mutant of all_reduce_sum: the rank keeps its own value.
all_reduce_keep(own, other) == own

\* One element of torch.distributed.all_reduce (sum) over a group of two.
all_reduce_sum(own, other) == Add(own, other)

\* torch.distributed.all_reduce(grad, group = embedding group) on one rank of
\* one stage: `grad` is the slot of parameter p in the rank's buffers `bufs`
\* (layout gbufs), the other member of the group contributes the slot of its
\* parameter other_p in other_bufs (layout other_gbufs).
all_reduce_embedding(gbufs, bufs, p, other_gbufs, other_bufs, other_p) ==
    [b \in 1..Len(bufs) |->
        [i \in DOMAIN bufs[b] |->
            IF /\ b = ParamBuf(gbufs, p)
               /\ ParamRange(gbufs, p).start <= i
               /\ i < ParamRange(gbufs, p).end
            THEN all_reduce_sum(
                     bufs[b][i],
                     other_bufs[ParamBuf(other_gbufs, other_p)]
                               [ParamRange(other_gbufs, other_p).start
                                + (i - ParamRange(gbufs, p).start)])
            ELSE bufs[b][i]]]

\* The grad buffers of rank r when the embedding section of reduce_grads is
\* over, on this stage and on the other stage of the embedding group.
tied_reduced_buffers(r) ==
    IF syncs_word_embeddings
    THEN all_reduce_embedding(models, grad_buffers[r], args.word_embeddings_weight,
                              peer.models, peer.grad_buffers[r],
                              args.peer_word_embeddings_weight)
    ELSE grad_buffers[r]

peer_tied_reduced_buffers(r) ==
    IF syncs_word_embeddings
    THEN all_reduce_embedding(peer.models, peer.grad_buffers[r],
                              args.peer_word_embeddings_weight,
                              models, grad_buffers[r], args.word_embeddings_weight)
    ELSE peer.grad_buffers[r]

\* self.model_gbuf_shards of rank q of the other stage.
peer_model_gbuf_shards(q) == peer.model_gbuf_shards[q]

\* The first nonconforming buffer of rank r of the other stage, or 0.
peer_first_nonconforming(r) ==
    first_nonconforming(peer.grad_buffers[r],
        get_model_grad_buffer_dp_views(peer_model_gbuf_shards(r)), r, 1)

\* reduce_grads on rank r of the other stage: as on this stage.
peer_reduce_grads_buffers(r) ==
    IF syncs_position_embeddings THEN peer_tied_reduced_buffers(r)
    ELSE [b \in 1..Len(peer.models) |->
            IF peer_first_nonconforming(r) = 0 \/ b < peer_first_nonconforming(r)
            THEN reduce_scatter(
                     [q \in Ranks |->
                         div_by_world_size(peer_tied_reduced_buffers(q)[b], world_size)],
                     [q \in Ranks |->
                         get_model_grad_buffer_dp_views(peer_model_gbuf_shards(q))[b]],
                     r)
            ELSE IF b = peer_first_nonconforming(r)
                 THEN div_by_world_size(peer_tied_reduced_buffers(r)[b], world_size)
                 ELSE peer_tied_reduced_buffers(r)[b]]

\* reduce_grads returns on every rank of the other stage.
peer_reduce_grads_returns ==
    /\ ~syncs_position_embeddings
    /\ \A r \in Ranks : peer_first_nonconforming(r) = 0

\* Rank q of the other stage finds a non-finite value in its master grads: in
\* an element of a parameter inside its own world shard.
peer_detects_non_finite(q) ==
    \E b \in 1..Len(peer.models) :
        \E i \in SliceIdx(peer_model_gbuf_shards(q)[b].world.start,
                          peer_model_gbuf_shards(q)[b].world.end,
                          peer.models[b].numel) :
            /\ InParamSlot(peer.models[b], i)
            /\ IsNonFinite(peer.grad_buffers[q][b][i])

\* The other stage's gradients of a backward pass.
PeerGradValue(pattern, r, i) ==
    IF pattern = "ones" THEN Fin(1) ELSE Fin(10 * (r + 1) + i)

\* The other stage's grad buffers after the backward pass.
PeerBackwardBuffers(pattern, scalers) ==
    [r \in Ranks |->
        [b \in 1..Len(peer.models) |->
            [i \in 0..(peer.models[b].numel - 1) |->
                IF InParamSlot(peer.models[b], i)
                THEN Mul(scalers[r].scale, PeerGradValue(pattern, r, i))
                ELSE Fin(0)]]]

\* ------------------------------------------------------- order of operations

\* The operations of reduce_grads on rank r, in program order: the embedding
\* all-reduce when its condition holds, the raise of the position-embedding
\* branch, else for every buffer the division and the reduce-scatter, up to
\* the first collective that fails (fail_at, 0 for none).
RECURSIVE reduce_scatter_ops(_, _, _)
reduce_scatter_ops(b, n, fail_at) ==
    IF b > n THEN << >>
    ELSE IF b = fail_at THEN <<"div_by_world_size", "reduce_scatter_raises">>
    ELSE <<"div_by_world_size", "reduce_scatter">>
             \o reduce_scatter_ops(b + 1, n, fail_at)

reduce_grads_ops(n, fail_at) ==
    (IF syncs_word_embeddings THEN <<"tied_all_reduce">> ELSE << >>)
    \o (IF syncs_position_embeddings THEN <<"raise">>
        ELSE reduce_scatter_ops(1, n, fail_at))

\* The mutant of step_ops: the inner optimizer steps before the grads are
\* copied in, and on the overflow path too.
step_ops_inner_first(found_inf_flag) ==
    <<"inner_step", "copy_grads_in", "unscale_and_check", "flag_all_reduce",
      "grad_scaler_update">>
    \o (IF found_inf_flag THEN <<"pax">> ELSE <<"copy_params_out">>)

\* The operations of step, in program order.
step_ops(found_inf_flag) ==
    <<"copy_grads_in">>
    \o (IF has_grad_scaler
        THEN <<"unscale_and_check", "flag_all_reduce", "grad_scaler_update">>
        ELSE << >>)
    \o (IF has_grad_scaler /\ found_inf_flag THEN <<"pax">>
        ELSE (IF clip_grad > 0 THEN <<"clip_grad_norm">> ELSE << >>)
             \o <<"inner_step", "copy_params_out">>)

\* The operations of gather_params over n buffers, in program order.
gather_params_ops(n) ==
    [b \in 1..n |-> "all_gather"] \o <<"param_copy">>

\* One non-finite value in one element of the word-embedding gradient of
\* rank 0 of this stage.
EmbeddingInjections ==
    {[rank |-> 0, buffer |-> ParamBuf(models, args.word_embeddings_weight),
      index |-> i, value |-> v] :
         i \in ItemIdx(ParamRange(models, args.word_embeddings_weight)),
         v \in NonFiniteValues}

\* The non-finite values a backward pass may leave: anywhere on a single
\* stage; with another stage in the embedding group, in the word-embedding
\* gradient, from where the all-reduce carries it to the other stage.
DrawnInjections ==
    IF peer.models = << >> THEN Injections ELSE EmbeddingInjections

\* Most training iterations started.
MaxIter == 2

\* Forward and backward of one iteration on every rank, for both variants on
\* the same gradients; the grad buffers were zeroed before.  The backward
\* pass leaves no non-finite value, or one of those of `injections`.
BackwardWith(injections) ==
    /\ iteration < MaxIter
    /\ \A r \in Ranks : pc[r] = "ready" /\ rep_pc[r] = "ready"
    /\ \E pattern \in GradPatterns, inj \in {NoInjection} \cup injections :
        /\ inj = NoInjection \/ pattern = "ones"
        /\ grad_buffers' = BackwardBuffers(pattern, inj, grad_scaler)
        /\ rep_grad_buffers' = BackwardBuffers(pattern, inj, rep_grad_scaler)
        /\ iter_start' = [grads        |-> BackwardBuffers(pattern, inj, grad_scaler),
                          scale        |-> [r \in Ranks |-> grad_scaler[r].scale],
                          model_params |-> model_params,
                          main_param   |-> main_param,
                          peer_grads   |-> PeerBackwardBuffers(pattern, grad_scaler)]
        /\ peer' = [peer EXCEPT
                       !.grad_buffers = PeerBackwardBuffers(pattern, grad_scaler),
                       !.rep_grad_buffers = PeerBackwardBuffers(pattern, rep_grad_scaler),
                       !.reduced = FALSE]
    /\ iteration' = iteration + 1
    /\ pc' = [r \in Ranks |-> "grads"]
    /\ rep_pc' = [r \in Ranks |-> "grads"]
    /\ step_result' = [r \in Ranks |-> NoResult]
    /\ rep_step_result' = [r \in Ranks |-> NoResult]
    /\ rs_begin' = NoSnapshot
    /\ trace' = [r \in Ranks |-> << >>]
    /\ UNCHANGED <<layout_vars, shard_vars, constructed, model_params,
                   main_param, main_grad, grad_scaler, found_inf,
                   rep_main_params, rep_model_params, rep_grad_scaler,
                   args, raised>>
    /\ param_grad' = [r \in Ranks |-> [p \in AllParams(models) |-> NoGrad]]
    /\ UNCHANGED <<cfg, ckpt, rep_optimizer_state, other_vars>>

\* A backward pass that may leave a non-finite value anywhere.
Backward == BackwardWith(DrawnInjections)

\* The non-finite values drawn in the runs that can go on after one (no grad
\* scaler, or gather_params without step): in the first element of the first
\* grad buffer of rank 0.
FirstElementInjections ==
    {inj \in Injections : inj.rank = 0 /\ inj.buffer = 1 /\ inj.index = 0}

\* A backward pass of such a run.
BackwardFirstElement == BackwardWith(FirstElementInjections)

\* ------------------------------------------ distributed optimizer: handlers

\* The grad buffers of rank r after the reduce-scatter section of
\* reduce_grads: every buffer before the first nonconforming one (all of them
\* when fail_at = 0) is divided and reduce-scattered; the nonconforming one is
\* divided, and the call raises.
reduce_grads_buffers(r, fail_at) ==
    [b \in 1..Len(models) |->
        IF fail_at = 0 \/ b < fail_at
        THEN reduce_scatter(
                 [q \in Ranks |->
                     div_by_world_size(tied_reduced_buffers(q)[b], world_size)],
                 [q \in Ranks |->
                     get_model_grad_buffer_dp_views(model_gbuf_shards[q])[b]],
                 r)
        ELSE IF b = fail_at
             THEN div_by_world_size(tied_reduced_buffers(r)[b], world_size)
             ELSE tied_reduced_buffers(r)[b]]

\* The first grad buffer of rank r whose reduce-scatter fails, or 0.
reduce_scatter_fails_at(r) ==
    first_nonconforming(grad_buffers[r],
        get_model_grad_buffer_dp_views(model_gbuf_shards[r]), r, 1)

\* Float16DistributedOptimizer.reduce_grads on every rank (and on the ranks
\* of the other stage of the embedding group): the word-embedding all-reduce,
\* the position-embedding branch, which raises, then the reduce-scatters.
reduce_grads ==
    /\ \A r \in Ranks : pc[r] = "grads"
    /\ grad_buffers' = [r \in Ranks |->
           IF syncs_position_embeddings THEN tied_reduced_buffers(r)
           ELSE reduce_grads_buffers(r, reduce_scatter_fails_at(r))]
    /\ peer' = [peer EXCEPT
                   !.grad_buffers = [r \in Ranks |-> peer_reduce_grads_buffers(r)],
                   !.reduced = peer_reduce_grads_returns]
    /\ rs_begin' = IF syncs_position_embeddings THEN rs_begin
                   ELSE [taken |-> TRUE,
                         local |-> [r \in Ranks |-> tied_reduced_buffers(r)],
                         peer  |-> [r \in Ranks |-> peer_tied_reduced_buffers(r)]]
    /\ pc' = [r \in Ranks |->
           IF ~syncs_position_embeddings /\ reduce_scatter_fails_at(r) = 0
           THEN "reduced" ELSE "failed"]
    /\ raised' = [r \in Ranks |->
           [raised[r] EXCEPT !.distributed =
               IF syncs_position_embeddings THEN "[fix] ready for t5 sync?"
               ELSE IF reduce_scatter_fails_at(r) # 0 THEN "reduce_scatter"
               ELSE @]]
    /\ trace' = [r \in Ranks |->
           trace[r] \o reduce_grads_ops(Len(models), reduce_scatter_fails_at(r))]
    /\ UNCHANGED <<layout_vars, shard_vars, constructed, model_params,
                   main_param, main_grad, grad_scaler, found_inf, step_result,
                   iteration, iter_start, rep_vars, args>>
    /\ UNCHANGED aux_vars

\* The master grads of rank r after _copy_model_grads_to_main_grads.
copied_main_grads(r) ==
    copy_model_grads_to_main_grads(main_grad[r], opt_group_shards[r],
                                   param_gbuf_map[r], model_gbuf_shards[r],
                                   grad_buffers[r])

\* found_inf after torch.distributed.all_reduce(..., op = MAX) over the world:
\* the ranks of this stage and of the other stage.
all_reduce_found_inf ==
    IF \/ \E r \in Ranks : has_non_finite(copied_main_grads(r))
       \/ \E q \in Ranks : peer_detects_non_finite(q)
    THEN 1 ELSE 0

\* The master grads of rank r when step() reaches the clipping: unscaled
\* when there is a grad scaler, as copied in when there is none.
step_main_grads(r) ==
    IF has_grad_scaler
    THEN unscale(copied_main_grads(r), inv_scale(grad_scaler[r]))
    ELSE copied_main_grads(r)

\* BaseFloat16Optimizer.step on every rank of the distributed optimizer.
\* With a grad scaler: unscale and check, the all-reduce of found_inf (it
\* completes when every rank of the world takes part), the scaler's update,
\* and on overflow pax(0, {...}): lutil's pax prints its arguments and ends
\* the process, so step does not return.  Without one the whole branch is
\* skipped.
step ==
    /\ \A r \in Ranks : pc[r] = "reduced"
    /\ peer.models = << >> \/ peer.reduced
    /\ found_inf' = IF has_grad_scaler
                    THEN [r \in Ranks |-> all_reduce_found_inf]
                    ELSE found_inf
    /\ main_grad' = [r \in Ranks |-> step_main_grads(r)]
    /\ grad_scaler' = IF has_grad_scaler
                      THEN [r \in Ranks |->
                               grad_scaler_update(grad_scaler[r],
                                                  all_reduce_found_inf > 0)]
                      ELSE grad_scaler
    /\ trace' = [r \in Ranks |-> trace[r] \o step_ops(all_reduce_found_inf > 0)]
    /\ IF has_grad_scaler /\ all_reduce_found_inf > 0
       THEN /\ pc' = [r \in Ranks |-> "exited"]
            /\ UNCHANGED <<main_param, grad_buffers, step_result>>
       ELSE /\ main_param' = [r \in Ranks |->
                   optimizer_step(main_param[r], step_main_grads(r))]
            /\ grad_buffers' = [r \in Ranks |->
                   copy_main_params_to_model_params(
                       grad_buffers[r], opt_group_shards[r], param_gbuf_map[r],
                       model_gbuf_shards[r],
                       optimizer_step(main_param[r], step_main_grads(r)))]
            /\ step_result' = [r \in Ranks |-> SuccessResult]
            /\ pc' = [r \in Ranks |-> "stepped"]
    /\ UNCHANGED <<layout_vars, shard_vars, constructed, model_params,
                   iteration, iter_start, rep_vars, pipe_vars, raised>>
    /\ UNCHANGED aux_vars

\* The grad buffers of rank r after the all-gathers of gather_params.
gathered_buffers(r) ==
    [b \in 1..Len(models) |->
        all_gather([q \in Ranks |-> grad_buffers[q][b]],
                   [q \in Ranks |->
                       get_model_grad_buffer_dp_views(model_gbuf_shards[q])[b]],
                   r)]

\* Float16DistributedOptimizer.gather_params on every rank, called when every
\* rank is at `at`: all-gather of every buffer, then
\* param.detach().copy_(param.main_grad) for every param.  The method reads
\* nothing that tells whether step() ran.
gather_params_from(at) ==
    /\ \A r \in Ranks : pc[r] = at
    /\ grad_buffers' = [r \in Ranks |-> gathered_buffers(r)]
    /\ model_params' = [r \in Ranks |->
           [p \in AllParams(models) |->
               param_main_grad(models, gathered_buffers(r), p)]]
    /\ pc' = [r \in Ranks |-> "ready"]
    /\ trace' = [r \in Ranks |-> trace[r] \o gather_params_ops(Len(models))]
    /\ UNCHANGED <<layout_vars, shard_vars, constructed, main_param, main_grad,
                   grad_scaler, found_inf, step_result, iteration, iter_start,
                   rep_vars, pipe_vars, raised>>
    /\ UNCHANGED aux_vars

\* gather_params as the training loop calls it, after a step that returned.
gather_params == gather_params_from("stepped")

\* gather_params called after reduce_grads, with no step in between.
gather_params_without_step == gather_params_from("reduced")

\* _zero_grad_group_helper on one parameter's .grad: None stays None; else
\* the tensor is set to None or zeroed in place.
zero_grad_group_helper(grad, set_to_none) ==
    IF grad.is_none THEN grad
    ELSE IF set_to_none THEN NoGrad
    ELSE SomeGrad([i \in DOMAIN grad.data |-> Fin(0)])

\* Float16DistributedOptimizer.zero_grad(set_to_none), called by the training
\* loop on every rank: the model params are the keys of every model's
\* _grad_buffer_param_index_map, and the helper is called on them with
\* set_to_none = False whatever the argument.  It writes the params' .grad
\* and nothing else.  The loop calls it once in an iteration, at any point.
zero_grad(set_to_none) ==
    /\ \A r \in Ranks : /\ pc[r] \in {"ready", "grads", "reduced", "stepped"}
                         /\ \A k \in 1..Len(trace[r]) :
                                trace[r][k] # "zero_grad"
    /\ param_grad' = [r \in Ranks |->
           [p \in AllParams(models) |->
               zero_grad_group_helper(param_grad[r][p], FALSE)]]
    /\ trace' = [r \in Ranks |-> Append(trace[r], "zero_grad")]
    /\ UNCHANGED <<layout_vars, shard_vars, constructed, model_params,
                   main_param, main_grad, grad_buffers, grad_scaler, found_inf,
                   step_result, pc, iteration, iter_start, rep_vars, pipe_vars,
                   raised, cfg, ckpt, rep_optimizer_state, other_vars>>

\* Float16DistributedOptimizer.reload_model_params on rank r, called once the
\* optimizer is constructed and before training starts: raise Exception("hi.")
reload_model_params(r) ==
    /\ iteration = 0
    /\ pc[r] = "ready"
    /\ pc' = [pc EXCEPT ![r] = "failed"]
    /\ raised' = [raised EXCEPT ![r].distributed = "hi."]
    /\ UNCHANGED <<layout_vars, shard_vars, constructed, model_params,
                   main_param, main_grad, grad_buffers, grad_scaler, found_inf,
                   step_result, iteration, iter_start, rep_vars, pipe_vars,
                   trace>>
    /\ UNCHANGED aux_vars

\* -------------------------------------------- replicated optimizer: handlers

\* The distributed run of the current iteration is over (the two runs share
\* nothing but their inputs; the replicated one is taken second).
DistributedAtRest == \A r \in Ranks : pc[r] \in {"ready", "failed", "exited"}

\* Float16OptimizerWithFloat16Params.__init__ on every rank: the assertion of
\* the base class, then an fp32 clone of every float16 parameter of every
\* group; an fp32 parameter ends the process in pax, another type raises.
rep_construct_outcome ==
    IF expects_a_grad_scaler THEN "AssertionError"
    ELSE wrap_params_from(params_in_group_order(param_groups), 1)

rep_construct_message ==
    CASE rep_construct_outcome = "AssertionError" -> "fp16 expects a grad scaler."
      [] rep_construct_outcome = "TypeError" -> "Wrapped parameters must be one of"
      [] OTHER -> ""

rep_Construct ==
    /\ \A r \in Ranks : rep_pc[r] = "new"
    /\ rep_main_params' = IF rep_construct_outcome = "ok" THEN rep_model_params
                          ELSE rep_main_params
    /\ rep_pc' = [r \in Ranks |->
           CASE rep_construct_outcome = "ok" -> "ready"
             [] rep_construct_outcome = "pax" -> "exited"
             [] OTHER -> "failed"]
    /\ raised' = [r \in Ranks |->
           [raised[r] EXCEPT !.replicated =
               IF rep_construct_message = "" THEN @ ELSE rep_construct_message]]
    /\ UNCHANGED <<layout_vars, shard_vars, constructed, model_params,
                   main_param, main_grad, grad_buffers, grad_scaler, found_inf,
                   step_result, pc, iteration, iter_start, rep_model_params,
                   rep_grad_buffers, rep_grad_scaler, rep_step_result,
                   pipe_vars, trace>>
    /\ UNCHANGED aux_vars

\* The grad buffers of rank r after model_module.allreduce_gradients() of
\* every model, on this stage and on the other stage.
rep_allreduced_buffers(r) ==
    [b \in 1..Len(models) |->
        allreduce_gradients([q \in Ranks |-> rep_grad_buffers[q][b]], r)]

rep_peer_allreduced_buffers(r) ==
    [b \in 1..Len(peer.models) |->
        allreduce_gradients([q \in Ranks |-> peer.rep_grad_buffers[q][b]], r)]

\* Float16OptimizerWithFloat16Params.reduce_grads on every rank
\* (DDP_impl = 'local'): the all-reduce of every model's gradients, the
\* word-embedding all-reduce, the position-embedding branch, which raises.
rep_reduce_grads ==
    /\ DistributedAtRest
    /\ \A r \in Ranks : rep_pc[r] = "grads"
    /\ rep_grad_buffers' = [r \in Ranks |->
           IF syncs_word_embeddings
           THEN all_reduce_embedding(models, rep_allreduced_buffers(r),
                                     args.word_embeddings_weight,
                                     peer.models, rep_peer_allreduced_buffers(r),
                                     args.peer_word_embeddings_weight)
           ELSE rep_allreduced_buffers(r)]
    /\ peer' = [peer EXCEPT !.rep_grad_buffers = [r \in Ranks |->
           IF syncs_word_embeddings
           THEN all_reduce_embedding(peer.models, rep_peer_allreduced_buffers(r),
                                     args.peer_word_embeddings_weight,
                                     models, rep_allreduced_buffers(r),
                                     args.word_embeddings_weight)
           ELSE rep_peer_allreduced_buffers(r)]]
    /\ rep_pc' = [r \in Ranks |->
           IF syncs_position_embeddings THEN "failed" ELSE "reduced"]
    /\ raised' = [r \in Ranks |->
           [raised[r] EXCEPT !.replicated =
               IF syncs_position_embeddings THEN "[main] ready for t5 sync?"
               ELSE @]]
    /\ UNCHANGED <<layout_vars, shard_vars, constructed, model_params,
                   main_param, main_grad, grad_buffers, grad_scaler, found_inf,
                   step_result, pc, iteration, iter_start, rep_main_params,
                   rep_model_params, rep_grad_scaler, rep_step_result,
                   args, rs_begin, trace>>
    /\ UNCHANGED aux_vars

\* Float16OptimizerWithFloat16Params._copy_model_grads_to_main_grads on rank r:
\* main_param.grad = model_param.main_grad.float()
rep_copied_main_grads(r) ==
    [p \in AllParams(models) |-> param_main_grad(models, rep_grad_buffers[r], p)]

\* found_inf of the replicated run after the all-reduce (MAX) over the world.
rep_all_reduce_found_inf ==
    IF \/ \E r \in Ranks : has_non_finite(rep_copied_main_grads(r))
       \/ \E q \in Ranks : \E b \in 1..Len(peer.models) :
              \E i \in 0..(peer.models[b].numel - 1) :
                  /\ InParamSlot(peer.models[b], i)
                  /\ IsNonFinite(peer.rep_grad_buffers[q][b][i])
    THEN 1 ELSE 0

\* The master grads of rank r of the replicated run at the clipping.
rep_step_main_grads(r) ==
    IF has_grad_scaler
    THEN unscale(rep_copied_main_grads(r), inv_scale(rep_grad_scaler[r]))
    ELSE rep_copied_main_grads(r)

\* BaseFloat16Optimizer.step on every rank of the replicated optimizer.
rep_step ==
    /\ DistributedAtRest
    /\ \A r \in Ranks : rep_pc[r] = "reduced"
    /\ rep_grad_scaler' = IF has_grad_scaler
                          THEN [r \in Ranks |->
                                   grad_scaler_update(rep_grad_scaler[r],
                                       rep_all_reduce_found_inf > 0)]
                          ELSE rep_grad_scaler
    /\ IF has_grad_scaler /\ rep_all_reduce_found_inf > 0
       THEN /\ rep_pc' = [r \in Ranks |-> "exited"]
            /\ UNCHANGED <<rep_main_params, rep_model_params, rep_step_result>>
       ELSE /\ rep_main_params' = [r \in Ranks |->
                   optimizer_step(rep_main_params[r], rep_step_main_grads(r))]
            /\ rep_model_params' = [r \in Ranks |->
                   optimizer_step(rep_main_params[r], rep_step_main_grads(r))]
            /\ rep_step_result' = [r \in Ranks |-> SuccessResult]
            /\ rep_pc' = [r \in Ranks |-> "stepped"]
    /\ UNCHANGED <<layout_vars, shard_vars, constructed, model_params,
                   main_param, main_grad, grad_buffers, grad_scaler, found_inf,
                   step_result, pc, iteration, iter_start, rep_grad_buffers,
                   pipe_vars, trace, raised>>
    /\ UNCHANGED aux_vars

\* Float16OptimizerWithFloat16Params.gather_params: pass
rep_gather_params ==
    /\ DistributedAtRest
    /\ \A r \in Ranks : rep_pc[r] = "stepped"
    /\ rep_pc' = [r \in Ranks |-> "ready"]
    /\ UNCHANGED <<layout_vars, shard_vars, constructed, model_params,
                   main_param, main_grad, grad_buffers, grad_scaler, found_inf,
                   step_result, pc, iteration, iter_start, rep_main_params,
                   rep_model_params, rep_grad_buffers, rep_grad_scaler,
                   rep_step_result, pipe_vars, trace, raised>>
    /\ UNCHANGED aux_vars

\* ------------------------------------------------ loss scale and checkpoint

\* self._scale_one = torch.cuda.FloatTensor([1.0])
scale_one == Fin(1)

\* The mutant of get_loss_scale: the scaler's scale, whatever the arguments.
get_loss_scale_of_scaler(scaler) == scaler.scale

\* BaseFloat16Optimizer.get_loss_scale, with self.grad_scaler the given one.
get_loss_scale(scaler) ==
    IF cfg.grad_scaler_is_none THEN scale_one ELSE scaler.scale

\* MegatronOptimizer.scale_loss: self.get_loss_scale() * loss
scale_loss(scaler, loss) == Mul(get_loss_scale(scaler), loss)

\* The mutant of fp32_from_float16_groups: the float16 model parameters.
float16_groups(r) ==
    [g \in 1..Len(param_groups) |->
        [k \in 1..Len(param_groups[g].params) |->
            rep_model_params[r][param_groups[g].params[k]]]]

\* self.fp32_from_float16_groups of rank r: per group, the fp32 clones of its
\* parameters.
fp32_from_float16_groups(r) ==
    [g \in 1..Len(param_groups) |->
        [k \in 1..Len(param_groups[g].params) |->
            rep_main_params[r][param_groups[g].params[k]]]]

\* Float16OptimizerWithFloat16Params.state_dict on rank r.
rep_state_dict(r) ==
    [EmptyStateDict EXCEPT
        !.optimizer = Holds(rep_optimizer_state[r]),
        !.grad_scaler = IF cfg.grad_scaler_is_none THEN @
                        ELSE Holds(rep_grad_scaler[r]),
        !.fp32_from_fp16_params = Holds(fp32_from_float16_groups(r))]

\* The state of an earlier run as a checkpoint holds it: the inner
\* optimizer's state, the scaler's state, the master parameters.
SavedOptimizerState == 7

SavedGradScaler == [scale |-> Fin(4), growth_tracker |-> 0]

SavedParamValue(p, i) == Fin(50 + 10 * p + i)

SavedGroups ==
    [g \in 1..Len(param_groups) |->
        [k \in 1..Len(param_groups[g].params) |->
            [i \in 0..(ParamNumel(models, param_groups[g].params[k]) - 1) |->
                SavedParamValue(param_groups[g].params[k], i)]]]

\* The dicts handed to load_state_dict: what state_dict() returns, a saved
\* dict with the current keys, and saved dicts of older formats.
StateDictKinds ==
    {"current", "saved", "legacy_optimizer_key", "legacy_fp32_key",
     "no_grad_scaler", "legacy", "no_optimizer", "no_fp32"}

MkStateDict(kind, r) ==
    IF kind = "current" THEN rep_state_dict(r)
    ELSE [optimizer |->
              IF kind \in {"legacy_optimizer_key", "legacy", "no_optimizer"}
              THEN Missing(0) ELSE Holds(SavedOptimizerState),
          optimizer_state_dict |->
              IF kind \in {"legacy_optimizer_key", "legacy"}
              THEN Holds(SavedOptimizerState) ELSE Missing(0),
          grad_scaler |->
              IF kind \in {"no_grad_scaler", "legacy"}
              THEN EmptyStateDict.grad_scaler ELSE Holds(SavedGradScaler),
          fp32_from_fp16_params |->
              IF kind \in {"legacy_fp32_key", "legacy", "no_fp32"}
              THEN Missing(<< >>) ELSE Holds(SavedGroups),
          fp32_from_fp16 |->
              IF kind \in {"legacy_fp32_key", "legacy"}
              THEN Holds(SavedGroups) ELSE Missing(<< >>)]

\* The mutant of optimizer_key: no fallback to the old key.
optimizer_key_current(state_dict) == "optimizer"

\* load_state_dict: 'optimizer', or 'optimizer_state_dict' when it is absent.
optimizer_key(state_dict) ==
    IF state_dict.optimizer.present THEN "optimizer" ELSE "optimizer_state_dict"

\* load_state_dict: 'fp32_from_fp16_params', or 'fp32_from_fp16'.
fp32_from_float16_params_key(state_dict) ==
    IF state_dict.fp32_from_fp16_params.present THEN "fp32_from_fp16_params"
    ELSE "fp32_from_fp16"

\* state_dict[key] for the keys above.
StateDictEntry(state_dict, key) ==
    CASE key = "optimizer" -> state_dict.optimizer
      [] key = "optimizer_state_dict" -> state_dict.optimizer_state_dict
      [] key = "fp32_from_fp16_params" -> state_dict.fp32_from_fp16_params
      [] OTHER -> state_dict.fp32_from_fp16

\* load_state_dict raises KeyError at the optimizer key, at the key of the
\* master parameters, or returns.
load_state_dict_outcome(state_dict) ==
    IF ~StateDictEntry(state_dict, optimizer_key(state_dict)).present
    THEN "KeyError_optimizer"
    ELSE IF ~StateDictEntry(state_dict,
                            fp32_from_float16_params_key(state_dict)).present
         THEN "KeyError_fp32"
         ELSE "ok"

\* The warnings load_state_dict prints.
load_state_dict_warnings(state_dict) ==
    (IF ~state_dict.optimizer.present THEN {"old checkpoint"} ELSE {})
    \cup (IF load_state_dict_outcome(state_dict) = "KeyError_optimizer" THEN {}
          ELSE IF ~state_dict.grad_scaler.present
               THEN {"will not load grad scaler"}
               ELSE IF cfg.grad_scaler_is_none
                    THEN {"Skipping loading grad scaler"} ELSE {})

\* The master parameters of rank r after the zip loops of load_state_dict:
\* current_param.data.copy_(saved_param.data) for the pairs zip yields.
loaded_main_params(r, saved_groups) ==
    [p \in DOMAIN rep_main_params[r] |->
        LET g == CHOOSE h \in 1..Len(param_groups) :
                     \E k \in 1..Len(param_groups[h].params) :
                         param_groups[h].params[k] = p
            k == CHOOSE j \in 1..Len(param_groups[g].params) :
                     param_groups[g].params[j] = p
        IN  IF g <= Len(saved_groups) /\ k <= Len(saved_groups[g])
            THEN saved_groups[g][k] ELSE rep_main_params[r][p]]

\* Float16OptimizerWithFloat16Params.load_state_dict(state_dict) on every
\* rank, each with the dict of the drawn kind.
rep_load_state_dict ==
    /\ \A r \in Ranks : rep_pc[r] = "ready"
    /\ \E kind \in StateDictKinds :
        LET sd == [r \in Ranks |-> MkStateDict(kind, r)]
            outcome == [r \in Ranks |-> load_state_dict_outcome(sd[r])]
        IN  /\ rep_optimizer_state' = [r \in Ranks |->
                   IF outcome[r] = "KeyError_optimizer" THEN rep_optimizer_state[r]
                   ELSE StateDictEntry(sd[r], optimizer_key(sd[r])).value]
            /\ rep_grad_scaler' = [r \in Ranks |->
                   IF /\ outcome[r] # "KeyError_optimizer"
                      /\ sd[r].grad_scaler.present
                      /\ ~cfg.grad_scaler_is_none
                   THEN sd[r].grad_scaler.value ELSE rep_grad_scaler[r]]
            /\ rep_main_params' = [r \in Ranks |->
                   IF outcome[r] = "ok"
                   THEN loaded_main_params(r,
                            StateDictEntry(sd[r],
                                fp32_from_float16_params_key(sd[r])).value)
                   ELSE rep_main_params[r]]
            /\ rep_pc' = [r \in Ranks |->
                   IF outcome[r] = "ok" THEN "ready" ELSE "failed"]
            /\ raised' = [r \in Ranks |->
                   [raised[r] EXCEPT !.replicated =
                       IF outcome[r] = "ok" THEN @ ELSE "KeyError"]]
            /\ ckpt' = [last_call  |-> "load_state_dict",
                        kind       |-> kind,
                        state_dict |-> sd,
                        before     |-> [main_params |-> rep_main_params,
                                        grad_scaler |-> rep_grad_scaler],
                        warnings   |-> UNION {load_state_dict_warnings(sd[r]) :
                                                 r \in Ranks}]
    /\ UNCHANGED <<layout_vars, shard_vars, constructed, model_params,
                   main_param, main_grad, grad_buffers, grad_scaler, found_inf,
                   step_result, pc, iteration, iter_start, rep_model_params,
                   rep_grad_buffers, rep_step_result, pipe_vars, trace,
                   cfg, param_grad, other_vars>>

\* The weights of a pretrained model.
PretrainedParamValue(p, i) == Fin(100 + 10 * p + i)

\* The model weights are replaced by those of a pretrained checkpoint, on
\* every rank of both variants (the caller's load of the model state).
load_pretrained_weights ==
    /\ \A r \in Ranks : rep_pc[r] = "ready"
    /\ ckpt.last_call # "load_pretrained_weights"
    /\ rep_model_params' = [r \in Ranks |->
           [p \in AllParams(models) |->
               [i \in 0..(ParamNumel(models, p) - 1) |->
                   PretrainedParamValue(p, i)]]]
    /\ model_params' = [r \in Ranks |->
           [p \in AllParams(models) |->
               [i \in 0..(ParamNumel(models, p) - 1) |->
                   PretrainedParamValue(p, i)]]]
    /\ ckpt' = [ckpt EXCEPT !.last_call = "load_pretrained_weights"]
    /\ UNCHANGED <<layout_vars, shard_vars, constructed, main_param, main_grad,
                   grad_buffers, grad_scaler, found_inf, step_result, pc,
                   iteration, iter_start, rep_main_params, rep_grad_buffers,
                   rep_grad_scaler, rep_step_result, rep_pc, pipe_vars, trace,
                   raised, cfg, param_grad, rep_optimizer_state, other_vars>>

\* BaseFloat16Optimizer.reload_model_params on every rank of the replicated
\* optimizer: _copy_model_params_to_main_params copies every float16 model
\* parameter into its fp32 clone.
rep_reload_model_params ==
    /\ \A r \in Ranks : rep_pc[r] = "ready"
    /\ rep_main_params' = rep_model_params
    /\ ckpt' = [ckpt EXCEPT !.last_call = "reload_model_params"]
    /\ UNCHANGED <<layout_vars, shard_vars, constructed, model_params,
                   main_param, main_grad, grad_buffers, grad_scaler, found_inf,
                   step_result, pc, iteration, iter_start, rep_model_params,
                   rep_grad_buffers, rep_grad_scaler, rep_step_result, rep_pc,
                   pipe_vars, trace, raised, cfg, param_grad,
                   rep_optimizer_state, other_vars>>

\* ------------------------------------------------------------ FP32Optimizer

\* The gradients a backward pass leaves on the fp32 parameters: ones; a zero
\* among ones; an inf among ones.
FP32GradPatterns == {"ones", "with_zero", "with_inf"}

FP32GradValue(pattern, i) ==
    IF i > 0 \/ pattern = "ones" THEN Fin(1)
    ELSE IF pattern = "with_zero" THEN Fin(0) ELSE PosInf

\* The gradient of rank r's parameter after a backward pass.
FP32Grad(pattern, r) ==
    SomeGrad([i \in DOMAIN fp32.param[r] |-> FP32GradValue(pattern, i)])

\* Forward and backward of one iteration on every rank: the gradient is in
\* .main_grad when the params have one, else in .grad.
FP32_backward ==
    /\ \A r \in Ranks : fp32.pc[r] = "ready" /\ fp32.calls[r] < MaxIter
    /\ \E pattern \in FP32GradPatterns :
           fp32' = [fp32 EXCEPT
               !.main_grad = [r \in Ranks |->
                   IF fp32.params_have_main_grad THEN FP32Grad(pattern, r)
                   ELSE fp32.main_grad[r]],
               !.grad = [r \in Ranks |->
                   IF fp32.params_have_main_grad THEN NoGrad
                   ELSE FP32Grad(pattern, r)],
               !.result = [r \in Ranks |-> FP32NoResult],
               !.pc = [r \in Ranks |-> "grads"]]
    /\ UNCHANGED <<optimizer_vars, pqs, db>>

\* MegatronOptimizer.clip_grad_norm takes (clip_grad, ITERATION);
\* FP32Optimizer.step calls self.clip_grad_norm(self.clip_grad), one argument
\* short: Python raises TypeError before the body runs.
fp32_clip_grad_norm_raises == fp32.clip_grad > 0

\* param.grad on rank r once step() has copied main_grads to grads.
fp32_step_grad(r) ==
    IF fp32.params_have_main_grad THEN fp32.main_grad[r] ELSE fp32.grad[r]

\* count_zeros(): the number of zero elements of the gradients.
fp32_count_zeros(grad) ==
    Cardinality({i \in DOMAIN grad.data : grad.data[i] = Fin(0)})

\* FP32Optimizer.step on rank r: main_grads to grads, the clipping, the count
\* of zeros, the inner optimizer's step, `return True, grad_norm,
\* num_zeros_in_grad`.
FP32_step(r) ==
    /\ fp32.pc[r] = "grads"
    /\ IF fp32_clip_grad_norm_raises
       THEN fp32' = [fp32 EXCEPT
                !.grad[r] = fp32_step_grad(r),
                !.main_grad[r] =
                    IF fp32.params_have_main_grad
                       /\ ~fp32.use_contiguous_buffers_in_local_ddp
                    THEN NoGrad ELSE @,
                !.calls[r] = @ + 1,
                !.raised[r] = "TypeError",
                !.pc[r] = "failed"]
       ELSE fp32' = [fp32 EXCEPT
                !.grad[r] = fp32_step_grad(r),
                !.main_grad[r] =
                    IF fp32.params_have_main_grad
                       /\ ~fp32.use_contiguous_buffers_in_local_ddp
                    THEN NoGrad ELSE @,
                !.param[r] = optimizer_step(<<fp32.param[r]>>,
                                            <<fp32_step_grad(r).data>>)[1],
                !.calls[r] = @ + 1,
                !.inner_steps[r] = @ + 1,
                !.result[r] =
                    [returned |-> TRUE, success |-> TRUE,
                     grad_norm |-> Missing(Fin(0)),
                     num_zeros_in_grad |->
                         IF fp32.log_num_zeros_in_grad
                         THEN Holds(fp32_count_zeros(fp32_step_grad(r)))
                         ELSE Missing(0)],
                !.pc[r] = "ready"]
    /\ UNCHANGED <<optimizer_vars, pqs, db>>

\* --------------------------------------------------------- the training runs

\* The layouts of a grad buffer of length n drawn for training: one parameter
\* filling it, two parameters filling it, one parameter and a padded tail.
TrainShapes(n) ==
    {[numel |-> n, sizes |-> <<n>>]}
    \cup (IF n >= 2
          THEN {[numel |-> n, sizes |-> <<1, n - 1>>],
                [numel |-> n, sizes |-> <<n - 1>>]}
          ELSE {})

\* One grad buffer, or two of the same length.
TrainShapeLists ==
    UNION {{<<a>> : a \in TrainShapes(n)}
           \cup {<< [numel |-> n, sizes |-> <<n>>], [numel |-> n, sizes |-> <<n>>] >>} :
           n \in 1..MaxN}

Init ==
    \E w \in 1..MaxW, shapes \in TrainShapeLists, rev \in BOOLEAN,
       pattern \in {"all_first", "alternate"} :
        /\ InitConfig(w, MkGbufs(shapes, rev),
                      MkParamGroups(MkGbufs(shapes, rev), pattern), initial_scale)
        /\ NoPipeline(w)
        /\ Float16Run(w, MkGbufs(shapes, rev))

Next ==
    \/ \E r \in Ranks : Construct(r)
    \/ \E r \in Ranks : reload_model_params(r)
    \/ rep_Construct
    \/ Backward
    \/ reduce_grads
    \/ step
    \/ gather_params
    \/ rep_reduce_grads
    \/ rep_step
    \/ rep_gather_params

Spec == Init /\ [][Next]_vars

\* ------------------------------------------- training with pipeline stages

\* The configurations of a rank: one stage; first or last of two stages with
\* tied word embeddings; the same with a model that does not share them; a
\* middle stage of three, outside the embedding groups; first stage of a T5
\* model with a pipeline split rank.
PipelineConfigs ==
    {SingleStage,
     [SingleStage EXCEPT !.pipeline_model_parallel_world_size = 2],
     [SingleStage EXCEPT !.pipeline_model_parallel_world_size = 2,
                         !.share_word_embeddings = FALSE],
     [SingleStage EXCEPT !.pipeline_model_parallel_world_size = 3,
                         !.in_embedding_group = FALSE,
                         !.in_position_embedding_group = FALSE],
     [SingleStage EXCEPT !.pipeline_model_parallel_world_size = 2,
                         !.pipeline_model_parallel_split_rank = 1]}

\* This stage holds one grad buffer.
PipelineShapeLists == UNION {{<<a>> : a \in TrainShapes(n)} : n \in 1..MaxN}

\* The layouts of the other stage's grad buffer: the word-embedding weight
\* of e elements fills it, or follows another parameter.
PeerShapes(e) ==
    {[numel |-> e, sizes |-> <<e>>]}
    \cup {[numel |-> n, sizes |-> <<n - e, e>>] : n \in (e + 1)..MaxN}

\* The other stage of the embedding group, its optimizers constructed, with
\* zeroed grad buffers.
MkPeer(w, shape) ==
    [models            |-> MkGbufs(<<shape>>, FALSE),
     model_gbuf_shards |-> [r \in 0..(w - 1) |->
         get_model_gbuf_shard_maps(MkGbufs(<<shape>>, FALSE), r, w)],
     grad_buffers      |-> [r \in 0..(w - 1) |-> ZeroBuffers(MkGbufs(<<shape>>, FALSE))],
     rep_grad_buffers  |-> [r \in 0..(w - 1) |-> ZeroBuffers(MkGbufs(<<shape>>, FALSE))],
     reduced           |-> FALSE]

\* The word-embedding weight is the first parameter of this stage's first
\* buffer and the last parameter of the other stage's buffer.
InitPipeline ==
    \E w \in 1..MaxW, shapes \in PipelineShapeLists, stage \in PipelineConfigs :
        \E shape \in PeerShapes(shapes[1].sizes[1]) :
            /\ InitConfig(w, MkGbufs(shapes, FALSE),
                          MkParamGroups(MkGbufs(shapes, FALSE), "all_first"),
                          initial_scale)
            /\ args = [stage EXCEPT !.peer_word_embeddings_weight = Len(shape.sizes)]
            /\ peer = IF stage.in_embedding_group
                         /\ stage.pipeline_model_parallel_world_size > 1
                      THEN MkPeer(w, shape) ELSE NoPeer(w)
            /\ rs_begin = NoSnapshot
            /\ Float16Run(w, MkGbufs(shapes, FALSE))

SpecPipeline == InitPipeline /\ [][Next]_vars

\* ---------------------------------- construction and checkpoint interface

\* The parameter types drawn for the parameters.
ParamTypes == {HalfTensor, BFloat16Tensor, FloatTensor, DoubleTensor}

\* The loss scale the scaler of these runs starts from.
checkpoint_scale == Fin(2)

\* One grad buffer of the largest length, in every layout.
CheckpointShapeLists == {s \in PipelineShapeLists : s[1].numel = MaxN}

\* The state before construction under every drawn configuration: bf16 or
\* not, with or without a grad scaler, every assignment of types to the
\* parameters.
InitCheckpoint ==
    \E w \in 1..MaxW, shapes \in CheckpointShapeLists, is_bf16 \in BOOLEAN,
       no_scaler \in BOOLEAN :
        \E types \in [AllParams(MkGbufs(shapes, FALSE)) -> ParamTypes] :
            /\ InitConfig(w, MkGbufs(shapes, FALSE),
                          MkParamGroups(MkGbufs(shapes, FALSE), "alternate"),
                          checkpoint_scale)
            /\ NoPipeline(w)
            /\ cfg = [bf16                |-> is_bf16,
                      grad_scaler_is_none |-> no_scaler,
                      param_type          |-> types]
            /\ param_grad = [r \in 0..(w - 1) |->
                   [p \in AllParams(MkGbufs(shapes, FALSE)) |-> NoGrad]]
            /\ ckpt = NoCall(w)
            /\ rep_optimizer_state = [r \in 0..(w - 1) |-> 0]
            /\ NoOtherRun(w)

\* Construction of both variants, and reload_model_params on them.
NextConstruct ==
    \/ \E r \in Ranks : Construct(r)
    \/ \E r \in Ranks : reload_model_params(r)
    \/ rep_Construct
    \/ load_pretrained_weights
    \/ rep_reload_model_params

SpecConstruct == InitCheckpoint /\ [][NextConstruct]_vars

\* The replicated optimizer and its checkpoint interface.
NextCheckpoint ==
    \/ rep_Construct
    \/ load_pretrained_weights
    \/ rep_reload_model_params
    \/ rep_load_state_dict

SpecCheckpoint == InitCheckpoint /\ [][NextCheckpoint]_vars

\* ------------------------------------------ the calls, in the caller's order

\* The grad buffers drawn for the runs in which the caller orders the calls
\* itself: those of the longest length.
CallShapeLists == {s \in TrainShapeLists : s[1].numel = MaxN}

\* As Init, and the parameters come with no .grad or with a .grad tensor of
\* ones.
InitCalls ==
    \E w \in 1..MaxW, shapes \in CallShapeLists, rev \in {FALSE},
       pattern \in {"alternate"}, has_grad \in BOOLEAN :
        /\ InitConfig(w, MkGbufs(shapes, rev),
                      MkParamGroups(MkGbufs(shapes, rev), pattern), initial_scale)
        /\ NoPipeline(w)
        /\ cfg = Float16Config(MkGbufs(shapes, rev))
        /\ param_grad = [r \in 0..(w - 1) |->
               [p \in AllParams(MkGbufs(shapes, rev)) |->
                   IF has_grad
                   THEN SomeGrad([e \in 0..(ParamNumel(MkGbufs(shapes, rev), p) - 1)
                                     |-> Fin(1)])
                   ELSE NoGrad]]
        /\ ckpt = NoCall(w)
        /\ rep_optimizer_state = [r \in 0..(w - 1) |-> 0]
        /\ NoOtherRun(w)

\* The training loop's calls, zero_grad at any point of the iteration, and
\* gather_params with or without the step before it.
NextCalls ==
    \/ \E r \in Ranks : Construct(r)
    \/ rep_Construct
    \/ BackwardFirstElement
    \/ \E set_to_none \in BOOLEAN : zero_grad(set_to_none)
    \/ reduce_grads
    \/ step
    \/ gather_params
    \/ gather_params_without_step
    \/ rep_reduce_grads
    \/ rep_step
    \/ rep_gather_params

SpecCalls == InitCalls /\ [][NextCalls]_vars

\* ------------------------------------------------ bf16 without a grad scaler

\* The arguments of a bfloat16 run without a grad scaler.
BFloat16Config(gbufs) ==
    [bf16               |-> TRUE,
     grad_scaler_is_none |-> TRUE,
     param_type         |-> [p \in AllParams(gbufs) |-> BFloat16Tensor]]

\* As Init, in bfloat16 with grad_scaler = None: the loss scale is
\* _scale_one, which the scale of the run's start stands for.
InitBFloat16 ==
    \E w \in 1..MaxW, shapes \in CallShapeLists, rev \in {FALSE},
       pattern \in {"alternate"} :
        /\ InitConfig(w, MkGbufs(shapes, rev),
                      MkParamGroups(MkGbufs(shapes, rev), pattern), scale_one)
        /\ NoPipeline(w)
        /\ cfg = BFloat16Config(MkGbufs(shapes, rev))
        /\ param_grad = [r \in 0..(w - 1) |->
               [p \in AllParams(MkGbufs(shapes, rev)) |-> NoGrad]]
        /\ ckpt = NoCall(w)
        /\ rep_optimizer_state = [r \in 0..(w - 1) |-> 0]
        /\ NoOtherRun(w)

NextBFloat16 ==
    \/ \E r \in Ranks : Construct(r)
    \/ rep_Construct
    \/ BackwardFirstElement
    \/ reduce_grads
    \/ step
    \/ gather_params
    \/ rep_reduce_grads
    \/ rep_step
    \/ rep_gather_params

SpecBFloat16 == InitBFloat16 /\ [][NextBFloat16]_vars

\* ----------------------------------------------------- the FP32Optimizer run

\* An FP32Optimizer over one parameter of n elements on every rank, for every
\* combination of its arguments that passes the constructor's assertion
\* (contiguous buffers require main grads).
InitFP32 ==
    \E w \in 1..MaxW, n \in 1..MaxN, clip \in {0, 1}, log_zeros \in BOOLEAN,
       have_main_grad \in BOOLEAN, contiguous \in BOOLEAN :
        /\ contiguous => have_main_grad
        /\ InitConfig(w, MkGbufs(<<[numel |-> n, sizes |-> <<n>>]>>, FALSE),
                      MkParamGroups(MkGbufs(<<[numel |-> n, sizes |-> <<n>>]>>,
                                            FALSE), "all_first"),
                      initial_scale)
        /\ NoPipeline(w)
        /\ cfg = Float16Config(MkGbufs(<<[numel |-> n, sizes |-> <<n>>]>>, FALSE))
        /\ param_grad = [r \in 0..(w - 1) |-> [p \in {1} |-> NoGrad]]
        /\ ckpt = NoCall(w)
        /\ rep_optimizer_state = [r \in 0..(w - 1) |-> 0]
        /\ fp32 = [NoFP32(w) EXCEPT
               !.clip_grad = clip,
               !.log_num_zeros_in_grad = log_zeros,
               !.params_have_main_grad = have_main_grad,
               !.use_contiguous_buffers_in_local_ddp = contiguous,
               !.param = [r \in 0..(w - 1) |-> [i \in 0..(n - 1) |-> Fin(10 + i)]],
               !.pc = [r \in 0..(w - 1) |-> "ready"]]
        /\ pqs = NoPQs(w)
        /\ db = NoDB(w)

NextFP32 ==
    \/ FP32_backward
    \/ \E r \in Ranks : FP32_step(r)

SpecFP32 == InitFP32 /\ [][NextFP32]_vars

\* ------------------------------------------------- claims on the training step

\* C8: the distributed and the replicated variant produce the same sequence of
\* model parameters from the same initial parameters, per-rank gradients and
\* loss scale: whenever the replicated optimizer has completed an iteration,
\* the distributed optimizer has completed it too and every rank holds the
\* same model parameters in both; and the distributed optimizer completes no
\* iteration that ends the replicated run.
C8_SameParameterSequence ==
    /\ (iteration >= 1 /\ \A r \in Ranks : rep_pc[r] = "ready")
           => \A r \in Ranks :
                  pc[r] = "ready" /\ model_params[r] = rep_model_params[r]
    /\ (\A r \in Ranks : rep_pc[r] = "exited")
           => \A r \in Ranks : pc[r] # "ready"

\* The iteration ran at loss scale 1 on the same gradient in every rank's grad
\* buffers, and reduce_grads, step and gather_params have returned.
C9_Applies ==
    /\ iteration >= 1
    /\ \A r \in Ranks : pc[r] = "ready"
    /\ \A r \in Ranks : iter_start.scale[r] = Fin(1)
    /\ \A r \in Ranks : iter_start.grads[r] = iter_start.grads[0]

\* C9: with SGD at learning rate lr, loss scale 1, no overflow and the same
\* gradient g in every rank's grad buffer, after reduce_grads, step and
\* gather_params every element of every model parameter on every rank is its
\* previous value minus lr * g.
C9_FullStepSGD ==
    C9_Applies =>
        \A r \in Ranks : \A p \in AllParams(models) :
            \A i \in 0..(ParamNumel(models, p) - 1) :
                model_params[r][p][i] =
                    Sub(iter_start.model_params[r][p][i],
                        Mul(lr, param_main_grad(models, iter_start.grads[r], p)[i]))

\* A full step on two ranks or more that changed the parameters.
C9_Witness ==
    /\ C9_Applies
    /\ world_size >= 2
    /\ \A r \in Ranks : model_params[r] # iter_start.model_params[r]

\* Some element of some parameter's gradient on some rank is inf, -inf or nan.
NonFiniteGradient ==
    \E r \in Ranks : \E p \in AllParams(models) :
        \E i \in 0..(ParamNumel(models, p) - 1) :
            IsNonFinite(param_main_grad(models, iter_start.grads[r], p)[i])

\* C10: after +inf, -inf or NaN was injected into a gradient element on any
\* rank, the step that follows returns success = false on every rank, leaves
\* every master parameter unchanged and multiplies the loss scale by the
\* backoff factor.
C10_OverflowSkipsStep ==
    \A r \in Ranks :
        (iteration >= 1 /\ NonFiniteGradient
         /\ pc[r] \in {"stepped", "exited", "ready"})
            => /\ step_result[r] = SkippedResult
               /\ main_param[r] = iter_start.main_param[r]
               /\ grad_scaler[r].scale = Mul(iter_start.scale[r], backoff_factor)

\* Rank r found inf, -inf or nan in its own master grads in the last step (the
\* unscaled master grads keep every non-finite element).
detected_non_finite(r) == has_non_finite(main_grad[r])

\* C11: in any step, if at least one rank detects a non-finite value in its
\* master grads, every rank reads found_inf as set after the MAX all-reduce
\* and every rank returns success = false; if no rank detects one, every rank
\* runs the inner optimizer and returns success = true.
C11_AllRanksAgreeOnSkipping ==
    (\A r \in Ranks : pc[r] \in {"stepped", "exited"}) =>
        IF \E q \in Ranks : detected_non_finite(q)
        THEN \A r \in Ranks : found_inf[r] > 0 /\ step_result[r] = SkippedResult
        ELSE \A r \in Ranks : found_inf[r] = 0 /\ step_result[r] = SuccessResult

\* C12: on the distributed optimizer reload_model_params() followed by
\* gather_params(), with no step in between, leaves every model parameter on
\* every rank as it was: the call of reload_model_params returns (no rank has
\* raised in it) and the parameters are those held before the call.
C12_ReloadRoundTrip ==
    \A r \in Ranks :
        /\ raised[r].distributed # "hi."
        /\ iteration = 0 => model_params[r] = InitModelParams(models)

\* -------------------------------------------------- claims on tied weights

\* The rank whose world shard holds index i of a buffer of n elements.
WorldOwner(n, i) ==
    CHOOSE q \in Ranks : i \in ShardIdx(gbuf_world_all_shards(n, world_size)[q])

\* The gradient of the word-embedding weight on rank r of this stage and of
\* the other stage, as held in the given grad buffers.
word_embeddings_grad(gbufs, r) ==
    param_main_grad(models, gbufs[r], args.word_embeddings_weight)

peer_word_embeddings_grad(gbufs, r) ==
    param_main_grad(peer.models, gbufs[r], args.peer_word_embeddings_weight)

\* The value rank r's stage holds for element e of the word-embedding
\* gradient in the world shard of the rank that owns the element.
owned_word_embeddings_grad(e) ==
    grad_buffers[WorldOwner(models[ParamBuf(models, args.word_embeddings_weight)].numel,
                            ParamRange(models, args.word_embeddings_weight).start + e)]
                [ParamBuf(models, args.word_embeddings_weight)]
                [ParamRange(models, args.word_embeddings_weight).start + e]

peer_owned_word_embeddings_grad(e) ==
    peer.grad_buffers
        [WorldOwner(peer.models[ParamBuf(peer.models, args.peer_word_embeddings_weight)].numel,
                    ParamRange(peer.models, args.peer_word_embeddings_weight).start + e)]
        [ParamBuf(peer.models, args.peer_word_embeddings_weight)]
        [ParamRange(peer.models, args.peer_word_embeddings_weight).start + e]

\* reduce_grads has returned on every rank of the two stages that share the
\* word embeddings, and step has not started.
TiedReduceGradsReturned ==
    /\ syncs_word_embeddings
    /\ peer.reduced
    /\ \A r \in Ranks : pc[r] = "reduced"

\* C13 as stated: after reduce_grads() returns on the distributed optimizer,
\* every element of the slot of a weight shared across pipeline stages holds
\* the same gradient on all ranks of its embedding subgroup (rank r of this
\* stage and rank r of the other stage).
C13_TiedSlotIdentical ==
    TiedReduceGradsReturned =>
        \A r \in Ranks :
            word_embeddings_grad(grad_buffers, r)
                = peer_word_embeddings_grad(peer.grad_buffers, r)

\* C13, amended: after reduce_grads() returns, every element of the gradient
\* of a shared weight has the same value on both stages in the world shard of
\* the rank that owns the element: the mean over the data-parallel ranks of
\* the sum of the two stages' gradients.
C13_TiedOwnedIdentical ==
    TiedReduceGradsReturned =>
        \A e \in 0..(ParamNumel(models, args.word_embeddings_weight) - 1) :
            /\ owned_word_embeddings_grad(e) = peer_owned_word_embeddings_grad(e)
            /\ owned_word_embeddings_grad(e) =
                   Mul(SumUpTo([q \in Ranks |->
                                   Add(word_embeddings_grad(iter_start.grads, q)[e],
                                       peer_word_embeddings_grad(iter_start.peer_grads, q)[e])],
                               world_size - 1),
                       Rat(1, world_size))

\* Two ranks or more, the stages' gradients differ over the ranks, and some
\* rank holds an element of the shared weight outside its own shard on one
\* stage that differs from the other stage's.
C13_Witness ==
    /\ TiedReduceGradsReturned
    /\ world_size >= 2
    /\ \E r \in Ranks :
           word_embeddings_grad(grad_buffers, r)
               # peer_word_embeddings_grad(peer.grad_buffers, r)

\* The positions of operation a in a trace.
Positions(t, a) == {i \in 1..Len(t) : t[i] = a}

\* Every occurrence of a in the trace comes before every occurrence of b.
Precedes(t, a, b) ==
    \A i \in Positions(t, a) : \A j \in Positions(t, b) : i < j

\* C14: with pipeline world size > 1, the rank in the embedding group and a
\* model that shares word embeddings, reduce_grads all-reduces the
\* word-embedding gradient over the embedding group before any reduce-scatter
\* starts: when the reduce-scatter section begins both stages hold g0 + g1 in
\* the parameter's slot.  With pipeline world size 1, or the rank outside the
\* embedding group, no tied-weight all-reduce is issued.
C14_TiedWordEmbeddings ==
    \A r \in Ranks :
        IF syncs_word_embeddings
        THEN /\ Precedes(trace[r], "tied_all_reduce", "div_by_world_size")
             /\ Precedes(trace[r], "tied_all_reduce", "reduce_scatter")
             /\ Positions(trace[r], "reduce_scatter") # {}
                    => Positions(trace[r], "tied_all_reduce") # {}
             /\ rs_begin.taken =>
                    \A e \in 0..(ParamNumel(models, args.word_embeddings_weight) - 1) :
                        /\ word_embeddings_grad(rs_begin.local, r)[e]
                               = Add(word_embeddings_grad(iter_start.grads, r)[e],
                                     peer_word_embeddings_grad(iter_start.peer_grads, r)[e])
                        /\ peer_word_embeddings_grad(rs_begin.peer, r)[e]
                               = word_embeddings_grad(rs_begin.local, r)[e]
        ELSE /\ Positions(trace[r], "tied_all_reduce") = {}
             /\ rs_begin.taken => rs_begin.local[r] = iter_start.grads[r]

\* The reduce-scatter section has begun on two ranks of two stages after the
\* all-reduce of a word-embedding gradient that is not zero on the other
\* stage.
C14_Witness ==
    /\ syncs_word_embeddings
    /\ rs_begin.taken
    /\ world_size >= 2
    /\ \A r \in Ranks :
           /\ Positions(trace[r], "reduce_scatter") # {}
           /\ word_embeddings_grad(rs_begin.local, r)
                  # word_embeddings_grad(iter_start.grads, r)

\* C15: with pipeline world size > 1, the rank in the position-embedding
\* group and a pipeline split rank configured, reduce_grads all-reduces the
\* position-embedding gradient and completes normally, in both variants: it
\* does not raise in the position-embedding branch.
C15_PositionEmbeddingSync ==
    \A r \in Ranks :
        /\ raised[r].distributed # "[fix] ready for t5 sync?"
        /\ raised[r].replicated # "[main] ready for t5 sync?"

\* ------------------------------------------ claims on the order of operations

\* The operations the ordering is stated for, in the order claimed.
ClaimedOrder ==
    <<"tied_all_reduce", "reduce_scatter", "copy_grads_in", "unscale_and_check",
      "flag_all_reduce", "clip_grad_norm", "inner_step", "copy_params_out",
      "all_gather", "param_copy">>

\* C16: on every rank, within one training iteration of the distributed
\* optimizer, the tied-weight all-reduce precedes the reduce-scatters, these
\* precede the grad copy-in, which precedes unscale, finite check and flag
\* reduce; on the success path clip, inner step, param copy-out and
\* all-gather follow in that order, and the all-gathers precede the
\* per-parameter copy into the parameter tensors.
C16_ProgramOrder ==
    \A r \in Ranks :
        \A i \in 1..Len(ClaimedOrder) : \A j \in (i + 1)..Len(ClaimedOrder) :
            Precedes(trace[r], ClaimedOrder[i], ClaimedOrder[j])

\* A completed iteration with tied word embeddings on two ranks or more:
\* every operation of the claimed order has taken place.
C16_Witness ==
    /\ world_size >= 2
    /\ iteration >= 1
    /\ \A r \in Ranks :
           /\ pc[r] = "ready"
           /\ \A i \in 1..Len(ClaimedOrder) :
                  Positions(trace[r], ClaimedOrder[i]) # {}

\* The number of times operation a took place.
Count(t, a) == Cardinality(Positions(t, a))

\* C17: the inner optimizer's step() is invoked exactly once in an outer
\* step() that returns success = true (the master parameters are one inner
\* step away from those at the start) and not at all in one that returns
\* success = false; on the overflow path clipping, the inner step and the
\* param copy-out do not happen and the master parameters are untouched.
C17_InnerStepOnce ==
    \A r \in Ranks :
        /\ (step_result[r].returned /\ step_result[r].success)
               => /\ Count(trace[r], "inner_step") = 1
                  /\ main_param[r] = optimizer_step(iter_start.main_param[r],
                                                    main_grad[r])
        /\ (step_result[r].returned /\ ~step_result[r].success)
               => Count(trace[r], "inner_step") = 0
        /\ (Positions(trace[r], "flag_all_reduce") # {} /\ found_inf[r] > 0)
               => /\ Count(trace[r], "clip_grad_norm") = 0
                  /\ Count(trace[r], "inner_step") = 0
                  /\ Count(trace[r], "copy_params_out") = 0
                  /\ main_param[r] = iter_start.main_param[r]

\* A successful step on two ranks or more that moved the master parameters.
C17_Witness ==
    /\ world_size >= 2
    /\ \A r \in Ranks : step_result[r].returned /\ step_result[r].success
    /\ \E r \in Ranks : main_param[r] # iter_start.main_param[r]

\* self.log_num_zeros_in_grad of the configuration.
log_num_zeros_in_grad == FALSE

\* C18: step() returns (false, none, none) on overflow; on success it returns
\* (true, grad_norm, num_zeros) where grad_norm is the computed gradient norm
\* whenever clip_grad > 0 and num_zeros is a count exactly when
\* log_num_zeros_in_grad is set.
C18_StepReturnValue ==
    \A r \in Ranks :
        pc[r] \in {"stepped", "exited"} =>
            IF found_inf[r] > 0
            THEN step_result[r] = SkippedResult
            ELSE /\ step_result[r].returned
                 /\ step_result[r].success
                 /\ clip_grad > 0 => step_result[r].grad_norm # "none"
                 /\ log_num_zeros_in_grad
                        <=> step_result[r].num_zeros_in_grad # "none"

\* ------------------------------------------------- claims on the collectives

\* reduce_grads has returned on every rank and step has not started.
ReduceGradsReturned == \A r \in Ranks : pc[r] = "reduced"

\* C19 as stated: after reduce_grads() on W ranks, for every grad buffer and
\* every rank r, each element in rank r's own world shard is the sum over the
\* ranks of the element's value before the call, divided by W.
C19_MeanOfPreCallValues ==
    ReduceGradsReturned =>
        \A r \in Ranks : \A b \in 1..Len(models) :
            \A i \in ShardIdx(model_gbuf_shards[r][b].world) :
                grad_buffers[r][b][i] =
                    Mul(SumUpTo([q \in Ranks |-> iter_start.grads[q][b][i]],
                                world_size - 1),
                        Rat(1, world_size))

\* C19, amended: after reduce_grads() on W ranks, for every grad buffer and
\* every rank r, each element in rank r's own world shard is the sum over the
\* ranks of the element's value when the reduce-scatter section began, divided
\* by W; that value is the one before the call unless the word-embedding
\* all-reduce ran first; the division of a buffer comes right before its
\* reduce-scatter.
C19_ReduceScatterMean ==
    ReduceGradsReturned =>
        \A r \in Ranks :
            /\ \A b \in 1..Len(models) :
                   \A i \in ShardIdx(model_gbuf_shards[r][b].world) :
                       grad_buffers[r][b][i] =
                           Mul(SumUpTo([q \in Ranks |-> rs_begin.local[q][b][i]],
                                       world_size - 1),
                               Rat(1, world_size))
            /\ \A k \in Positions(trace[r], "reduce_scatter") :
                   k > 1 /\ trace[r][k - 1] = "div_by_world_size"
            /\ ~syncs_word_embeddings => rs_begin.local[r] = iter_start.grads[r]

\* reduce_grads has returned on two ranks or more whose gradients differ, and
\* some owned element differs from what the rank held before.
C19_Witness ==
    /\ ReduceGradsReturned
    /\ world_size >= 2
    /\ iter_start.grads[0] # iter_start.grads[1]
    /\ \E r \in Ranks : \E b \in 1..Len(models) :
           \E i \in ShardIdx(model_gbuf_shards[r][b].world) :
               grad_buffers[r][b][i] # iter_start.grads[r][b][i]

\* The retained group of rank a that holds parameter p.
GroupOf(a, p) ==
    CHOOSE g \in 1..Len(opt_group_shards[a]) :
        p \in Keys(opt_group_shards[a][g].param_map)

\* The master value of element e of parameter p, on the rank that owns it.
MasterValueOf(p, e) ==
    LET idx == ParamRange(models, p).start + e
        a == WorldOwner(models[ParamBuf(models, p)].numel, idx)
    IN  main_param[a][GroupOf(a, p)]
            [Lookup(opt_group_shards[a][GroupOf(a, p)].param_map, p).shard.start
             + (idx - EntryOf(a, p).gbuf_world.start)]

\* A successful step and the gather_params after it have returned.
GatherParamsReturned ==
    /\ iteration >= 1
    /\ \A r \in Ranks : pc[r] = "ready"

\* C20: after a successful step() followed by gather_params() every rank's
\* grad buffers are identical to every other rank's, every shard range holds
\* the values staged by the rank that owns it, and every element of every
\* model parameter on every rank is the owning rank's updated master value.
C20_AllGatherResult ==
    GatherParamsReturned =>
        \A r \in Ranks :
            /\ \A q \in Ranks : grad_buffers[r] = grad_buffers[q]
            /\ \A p \in AllParams(models) :
                   \A e \in 0..(ParamNumel(models, p) - 1) :
                       /\ model_params[r][p][e] = MasterValueOf(p, e)
                       /\ grad_buffers[r][ParamBuf(models, p)]
                                      [ParamRange(models, p).start + e]
                              = MasterValueOf(p, e)

\* A gathered iteration in which two ranks own parameter elements and the
\* gradients differed over the ranks.
C20_Witness ==
    /\ GatherParamsReturned
    /\ world_size >= 2
    /\ iter_start.grads[0] # iter_start.grads[1]
    /\ Cardinality({r \in Ranks : OwnedElements(r) > 0}) >= 2
    /\ \A r \in Ranks : model_params[r] # iter_start.model_params[r]

\* -------------------------------------------- claims on the shard copies

\* The entries (group, model_param, master_range) of rank r's retained groups.
MasterEntries(r) ==
    UNION {{<<g, k>> : k \in 1..Len(opt_group_shards[r][g].param_map)} :
              g \in 1..Len(opt_group_shards[r])}

\* C21: after _copy_model_grads_to_main_grads, for every retained group and
\* every (model_param, master_range) of its param_map, the master grad at
\* master_range is the grad buffer at the parameter's gbuf_world range,
\* element by element, the two ranges have the same size, and (seen where
\* step leaves after the copy, the unscale and the scaler update) the grad
\* buffers and the master parameters are as they were.
C21_GradCopyIn ==
    \A r \in Ranks : \A gk \in MasterEntries(r) :
        LET item == opt_group_shards[r][gk[1]].param_map[gk[2]]
            gw == EntryOf(r, item.key).gbuf_world
            b == ParamBuf(models, item.key)
        IN  /\ item.shard.size = gw.size
            /\ pc[r] = "reduced" =>
                   \A j \in 0..(gw.size - 1) :
                       copied_main_grads(r)[gk[1]][item.shard.start + j]
                           = grad_buffers[r][b][gw.start + j]
            /\ pc[r] = "exited" =>
                   /\ main_param[r] = iter_start.main_param[r]
                   /\ \A j \in 0..(gw.size - 1) :
                          main_grad[r][gk[1]][item.shard.start + j]
                              = Mul(grad_buffers[r][b][gw.start + j],
                                    Inv(iter_start.scale[r]))

\* reduce_grads has returned on two ranks or more with gradients that differ
\* over the elements, and some rank holds a parameter entry whose master range
\* does not start where its buffer range or its range in the parameter starts.
C21_Witness ==
    /\ world_size >= 2
    /\ \A r \in Ranks : pc[r] = "reduced"
    /\ iter_start.grads[0] # iter_start.grads[1]
    /\ \E r \in Ranks : \E gk \in MasterEntries(r) :
           LET item == opt_group_shards[r][gk[1]].param_map[gk[2]]
           IN  /\ item.shard.start # EntryOf(r, item.key).gbuf_world.start
               /\ EntryOf(r, item.key).param.start
                      # EntryOf(r, item.key).gbuf_world.start
               /\ item.shard.size >= 1

\* C22: after _copy_main_params_to_model_params, for every (model_param,
\* master_range) the grad buffer at the parameter's gbuf_world range holds
\* master_param[master_range]; positions outside the rank's own world shard
\* keep what reduce_grads left there (the value at the start of the
\* reduce-scatter section divided by W), and the master parameters are the
\* ones the inner step produced.
C22_ParamCopyOut ==
    \A r \in Ranks :
        pc[r] = "stepped" =>
            /\ \A gk \in MasterEntries(r) :
                   LET item == opt_group_shards[r][gk[1]].param_map[gk[2]]
                       gw == EntryOf(r, item.key).gbuf_world
                       b == ParamBuf(models, item.key)
                   IN  \A j \in 0..(gw.size - 1) :
                           grad_buffers[r][b][gw.start + j]
                               = main_param[r][gk[1]][item.shard.start + j]
            /\ \A b \in 1..Len(models) :
                   \A i \in (0..(models[b].numel - 1))
                                \ ShardIdx(model_gbuf_shards[r][b].world) :
                       grad_buffers[r][b][i]
                           = Mul(rs_begin.local[r][b][i], Rat(1, world_size))
            /\ main_param[r] = optimizer_step(iter_start.main_param[r],
                                              main_grad[r])

\* A successful step on two ranks or more: some rank staged a master range
\* that starts at another index than its buffer range, and holds outside its
\* world shard a value that is no master parameter.
C22_Witness ==
    /\ world_size >= 2
    /\ \A r \in Ranks : pc[r] = "stepped"
    /\ \E r \in Ranks :
           /\ \E gk \in MasterEntries(r) :
                  LET item == opt_group_shards[r][gk[1]].param_map[gk[2]]
                  IN  /\ item.shard.start # EntryOf(r, item.key).gbuf_world.start
                      /\ EntryOf(r, item.key).gbuf_local.start
                             # EntryOf(r, item.key).gbuf_world.start
           /\ \E b \in 1..Len(models) :
                  \E i \in (0..(models[b].numel - 1))
                               \ ShardIdx(model_gbuf_shards[r][b].world) :
                      /\ InParamSlot(models[b], i)
                      /\ grad_buffers[r][b][i] # Fin(0)

\* ---------------------------------------------- claims on the master groups

\* self.optimizer.param_groups of rank r once __init__ has run:
\* [ g["orig_group"] for g in self.opt_group_shards ], each with
\* params = [ main_param ] and main_param.grad allocated next to it.
optimizer_param_groups(r) ==
    [g \in 1..Len(opt_group_shards[r]) |->
        [orig_group |-> opt_group_shards[r][g].orig_group,
         params     |-> <<main_param[r][g]>>,
         grads      |-> <<main_grad[r][g]>>]]

\* The number of elements of the parameters of original group og inside rank
\* r's world shards.
OwnedInGroup(r, og) ==
    SumSeq([k \in 1..Len(param_groups[og].params) |->
        LET p == param_groups[og].params[k]
        IN  Cardinality(SliceIdx(ParamRange(models, p).start,
                                 ParamRange(models, p).end,
                                 models[ParamBuf(models, p)].numel)
                        \cap ShardIdx(model_gbuf_shards[r][ParamBuf(models, p)].world))])

\* The original groups that own elements on rank r, in their original order.
GroupsWithElements(r) ==
    SelectSeq([og \in 1..Len(param_groups) |-> og],
              LAMBDA og : OwnedInGroup(r, og) > 0)

\* C23: after construction the inner optimizer's param_groups are exactly the
\* original groups that own elements on the rank, in their original relative
\* order; each holds one flat master parameter of length group_size with a
\* master gradient of the same length, and index i of opt_group_shards is the
\* group at index i of param_groups.
C23_EmptyGroupsDropped ==
    \A r \in constructed :
        /\ [g \in 1..Len(optimizer_param_groups(r)) |->
               optimizer_param_groups(r)[g].orig_group] = GroupsWithElements(r)
        /\ Len(opt_group_shards[r]) = Len(optimizer_param_groups(r))
        /\ \A g \in 1..Len(optimizer_param_groups(r)) :
               LET og == optimizer_param_groups(r)[g].orig_group
               IN  /\ opt_group_shards[r][g].orig_group = og
                   /\ opt_group_shards[r][g].size = OwnedInGroup(r, og)
                   /\ Len(optimizer_param_groups(r)[g].params) = 1
                   /\ TensorLen(optimizer_param_groups(r)[g].params[1])
                          = OwnedInGroup(r, og)
                   /\ TensorLen(optimizer_param_groups(r)[g].grads[1])
                          = OwnedInGroup(r, og)
                   /\ {opt_group_shards[r][g].param_map[k].key :
                          k \in 1..Len(opt_group_shards[r][g].param_map)}
                        \subseteq {param_groups[og].params[k] :
                                      k \in 1..Len(param_groups[og].params)}

\* A rank that dropped the first original group and kept the second, next to
\* a rank that kept both.
C23_Witness ==
    /\ \E r \in constructed :
           /\ Len(opt_group_shards[r]) = 1
           /\ opt_group_shards[r][1].orig_group = 2
           /\ Len(param_groups[1].params) > 0
    /\ \E r \in constructed : Len(opt_group_shards[r]) = 2

\* ------------------------- claims on construction and the checkpoint interface

\* C24: reload_model_params() re-seeds the master state from the current
\* model weights: on the replicated and on the distributed variant the call
\* completes without error, and after it every master parameter element is
\* the corresponding element of the current model parameter.
C24_ReloadReseeds ==
    /\ \A r \in Ranks : raised[r].distributed # "hi."
    /\ ckpt.last_call = "reload_model_params" =>
           \A r \in Ranks :
               /\ rep_pc[r] = "ready"
               /\ rep_main_params[r] = rep_model_params[r]

\* The groups of master parameters held by tensors: current[g][k] is the
\* master copy of the k-th parameter of group g.
HoldsMasters(groups, mains) ==
    /\ Len(groups) = Len(param_groups)
    /\ \A g \in 1..Len(param_groups) :
           /\ Len(groups[g]) = Len(param_groups[g].params)
           /\ \A k \in 1..Len(param_groups[g].params) :
                  groups[g][k] = mains[param_groups[g].params[k]]

EitherEntry(current, legacy) == IF current.present THEN current ELSE legacy

\* C26: load_state_dict of the replicated optimizer accepts
\* 'optimizer_state_dict' when 'optimizer' is absent and 'fp32_from_fp16' when
\* 'fp32_from_fp16_params' is absent, and only warns when 'grad_scaler' is
\* missing although the instance has a scaler or present although it has
\* none; in each case the inner optimizer's state and the master parameters
\* are loaded.
C26_LegacyKeys ==
    ckpt.last_call = "load_state_dict" =>
        \A r \in Ranks :
            LET sd == ckpt.state_dict[r]
                opt == EitherEntry(sd.optimizer, sd.optimizer_state_dict)
                fp32_entry == EitherEntry(sd.fp32_from_fp16_params, sd.fp32_from_fp16)
            IN  (opt.present /\ fp32_entry.present) =>
                    /\ rep_pc[r] = "ready"
                    /\ raised[r].replicated = ""
                    /\ rep_optimizer_state[r] = opt.value
                    /\ HoldsMasters(fp32_entry.value, rep_main_params[r])
                    /\ rep_grad_scaler[r] =
                           IF sd.grad_scaler.present /\ ~cfg.grad_scaler_is_none
                           THEN sd.grad_scaler.value
                           ELSE ckpt.before.grad_scaler[r]
                    /\ ~sd.grad_scaler.present
                           => "will not load grad scaler" \in ckpt.warnings
                    /\ (sd.grad_scaler.present /\ cfg.grad_scaler_is_none)
                           => "Skipping loading grad scaler" \in ckpt.warnings

\* A dict with both legacy keys and no grad scaler has been loaded into an
\* optimizer that has a scaler and held other master parameters.
C26_Witness ==
    /\ ckpt.last_call = "load_state_dict"
    /\ ~cfg.grad_scaler_is_none
    /\ \A r \in Ranks :
           /\ ~ckpt.state_dict[r].optimizer.present
           /\ ckpt.state_dict[r].optimizer_state_dict.present
           /\ ~ckpt.state_dict[r].fp32_from_fp16_params.present
           /\ ckpt.state_dict[r].fp32_from_fp16.present
           /\ ~ckpt.state_dict[r].grad_scaler.present
           /\ rep_pc[r] = "ready"
           /\ rep_main_params[r] # ckpt.before.main_params[r]

\* The losses scale_loss is applied to.
Losses == {Fin(3), Rat(1, 2)}

\* The wrapped parameters are all float16.
AllFloat16 == \A p \in AllParams(models) :
                  cfg.param_type[p] \in {HalfTensor, BFloat16Tensor}

\* C27: constructing a float16 optimizer with no grad scaler and bf16 = false
\* fails at construction; with no grad scaler and bf16 = true it succeeds,
\* get_loss_scale() is then the constant 1 and scale_loss(loss) = loss; with
\* a scaler get_loss_scale() is the scaler's current scale and
\* scale_loss(loss) = loss * scale.
C27_ScalerPrecondition ==
    \A r \in Ranks :
        /\ pc[r] # "new" =>
               IF cfg.grad_scaler_is_none /\ ~cfg.bf16
               THEN /\ r \notin constructed
                    /\ raised[r].distributed = "fp16 expects a grad scaler."
               ELSE r \in constructed
        /\ rep_pc[r] # "new" =>
               IF cfg.grad_scaler_is_none /\ ~cfg.bf16
               THEN /\ rep_pc[r] = "failed"
                    /\ raised[r].replicated = "fp16 expects a grad scaler."
               ELSE /\ raised[r].replicated # "fp16 expects a grad scaler."
                    /\ AllFloat16 => rep_pc[r] = "ready"
        /\ (r \in constructed \/ rep_pc[r] = "ready") =>
               \A scaler \in {grad_scaler[r], rep_grad_scaler[r]} :
                   /\ get_loss_scale(scaler) =
                          IF cfg.grad_scaler_is_none THEN Fin(1) ELSE scaler.scale
                   /\ \A loss \in Losses :
                          scale_loss(scaler, loss) =
                              IF cfg.grad_scaler_is_none THEN loss
                              ELSE Mul(loss, scaler.scale)

\* Both variants are constructed in bf16 without a grad scaler on every rank,
\* over two ranks or more.
C27_Witness ==
    /\ world_size >= 2
    /\ cfg.grad_scaler_is_none /\ cfg.bf16
    /\ \A r \in Ranks : r \in constructed /\ rep_pc[r] = "ready"

\* The types construction accepts.
AcceptedTypes == {HalfTensor, BFloat16Tensor, FloatTensor}

\* C28: construction rejects a parameter whose type is none of F16, BF16,
\* F32: building either variant over such a parameter fails at construction,
\* and building it over parameters of the three accepted types succeeds.
C28_TypesChecked ==
    \A r \in Ranks :
        ~(cfg.grad_scaler_is_none /\ ~cfg.bf16) =>
            /\ pc[r] # "new" =>
                   (r \in constructed
                        <=> \A p \in AllParams(models) :
                                cfg.param_type[p] \in AcceptedTypes)
            /\ rep_pc[r] # "new" =>
                   IF \A p \in AllParams(models) : cfg.param_type[p] \in AcceptedTypes
                   THEN rep_pc[r] = "ready"
                   ELSE rep_pc[r] = "failed"

\* ------------------------------------------- claims on the caller's order

\* The slots of every rank's grad buffers that belong to a model parameter
\* are all zero, in the state after the step.
ParamSlotsZeroed ==
    \A r \in Ranks :
        \A p \in AllParams(models) :
            \A e \in 0..(ParamNumel(models, p) - 1) :
                grad_buffers'[r][ParamBuf(models, p)]
                             [ParamRange(models, p).start + e] = Fin(0)

\* C29: zero_grad(set_to_none) on the distributed optimizer, for either value
\* of set_to_none, leaves every slot of every per-dtype grad buffer that
\* belongs to a model parameter equal to zero, and sets no gradient to none.
C29_ZeroGradZeroesBuffers ==
    [][\A set_to_none \in BOOLEAN :
           zero_grad(set_to_none) =>
               /\ ParamSlotsZeroed
               /\ \A r \in Ranks : \A p \in AllParams(models) :
                      param_grad'[r][p].is_none => param_grad[r][p].is_none]_vars

\* C30: a model parameter is only ever overwritten with staged master
\* values: whatever calls of zero_grad, backward, reduce_grads, step and
\* gather_params came before, when gather_params has returned every element
\* of every model parameter on every rank equals the owning rank's current
\* master-parameter element.
C30_OnlyMasterValues ==
    GatherParamsReturned =>
        \A r \in Ranks :
            \A p \in AllParams(models) :
                \A e \in 0..(ParamNumel(models, p) - 1) :
                    model_params[r][p][e] = MasterValueOf(p, e)

\* ----------------------------------------------- claims on the other steps

\* step() has been called on rank r in the current iteration.
StepCalled(r) == Positions(trace[r], "copy_grads_in") # {}

\* C31: without a grad scaler (bf16) step() never takes the overflow path: no
\* unscale, no non-finite check, no flag all-reduce, no scaler update and no
\* exit; every call runs the inner optimizer's step once on the master grads
\* as copied in and returns success = true, non-finite grads included.
C31_NoScalerNoOverflowPath ==
    \A r \in Ranks :
        /\ pc[r] # "exited" /\ rep_pc[r] # "exited"
        /\ found_inf[r] = 0
        /\ grad_scaler[r] = MkGradScaler(scale_one)
        /\ \A a \in {"unscale_and_check", "flag_all_reduce",
                      "grad_scaler_update", "pax"} : Count(trace[r], a) = 0
        /\ StepCalled(r) =>
               /\ Count(trace[r], "inner_step") = 1
               /\ step_result[r].returned /\ step_result[r].success
               /\ main_param[r] = optimizer_step(iter_start.main_param[r],
                                                 main_grad[r])
        /\ rep_pc[r] \in {"stepped"} =>
               rep_step_result[r].returned /\ rep_step_result[r].success

\* A step that returned success over master grads holding inf or NaN, on two
\* ranks or more.
C31_Witness ==
    /\ world_size >= 2
    /\ cfg.grad_scaler_is_none
    /\ \A r \in Ranks : StepCalled(r) /\ step_result[r].success
    /\ \E r \in Ranks : has_non_finite(main_grad[r])

\* C32: FP32Optimizer.step() always returns success = true and invokes the
\* inner optimizer's step exactly once per call, for every configuration,
\* clip_grad > 0 and log_num_zeros_in_grad included: no call raises, and every
\* call made has returned success with one inner step.
C32_FP32StepAlwaysSucceeds ==
    \A r \in Ranks :
        /\ fp32.raised[r] = ""
        /\ fp32.inner_steps[r] = fp32.calls[r]
        /\ (fp32.calls[r] > 0 /\ fp32.pc[r] = "ready")
               => fp32.result[r].returned /\ fp32.result[r].success

\* C33: immediately after construction of the distributed optimizer, for
\* every retained group and every (model_param, master_range), the master
\* parameter at master_range equals the flattened model parameter sliced at
\* the entry's `param` sub-range (not at its buffer ranges), and master_range
\* has the size of that sub-range.
C33_MasterInitialisation ==
    \A r \in constructed : \A gk \in MasterEntries(r) :
        LET item == opt_group_shards[r][gk[1]].param_map[gk[2]]
            sub == EntryOf(r, item.key).param
        IN  /\ item.shard.size = sub.size
            /\ \A j \in 0..(sub.size - 1) :
                   main_param[r][gk[1]][item.shard.start + j]
                       = model_params[r][item.key][sub.start + j]

\* A constructed rank that owns the tail of a parameter: the sub-range
\* starts inside the parameter, away from where its buffer ranges and its
\* master range start.
C33_Witness ==
    \E r \in constructed : \E gk \in MasterEntries(r) :
        LET item == opt_group_shards[r][gk[1]].param_map[gk[2]]
            entry == EntryOf(r, item.key)
        IN  /\ entry.param.start > 0
            /\ entry.param.size > 0
            /\ entry.param.start # entry.gbuf_world.start
            /\ entry.param.start # item.shard.start

\* ------------------------------------------------ claims on the collectives' calls

\* C34: the views handed to the collectives conform: on every constructed
\* rank, for every grad buffer, the W views built by
\* get_model_grad_buffer_dp_views from world_all all have the same length,
\* and the list of ranges is the same on every constructed rank.
C34_ViewsConform ==
    \A r \in constructed :
        \A b \in 1..Len(models) :
            LET gbuf_views == get_model_grad_buffer_dp_views(model_gbuf_shards[r])[b]
            IN  /\ \A q \in DOMAIN gbuf_views : \A t \in DOMAIN gbuf_views :
                       ViewLen(grad_buffers[r][b], gbuf_views[q])
                           = ViewLen(grad_buffers[r][b], gbuf_views[t])
                /\ \A a \in constructed :
                       get_model_grad_buffer_dp_views(model_gbuf_shards[a])[b]
                           = gbuf_views

\* The collectives of a trace, in order.
RECURSIVE Collectives(_)
Collectives(t) ==
    IF t = << >> THEN << >>
    ELSE (IF t[1] \in {"tied_all_reduce", "reduce_scatter", "reduce_scatter_raises",
                       "flag_all_reduce", "all_gather"}
          THEN <<t[1]>> ELSE << >>) \o Collectives(Tail(t))

\* C35: no deadlock: with reduce_grads, step and gather_params called in
\* that order on every rank, all ranks issue the same sequence of
\* collectives whatever gradients they hold, and every call returns on every
\* rank: no call raises and none ends the process.
C35_EveryCallReturns ==
    \A r \in Ranks :
        /\ \A q \in Ranks : Collectives(trace[r]) = Collectives(trace[q])
        /\ pc[r] # "exited"
        /\ raised[r].distributed \notin {"reduce_scatter", "[fix] ready for t5 sync?"}

\* The shapes of what rank r allocated at construction: its shard maps, the
\* number of retained groups (each is one param group of the inner
\* optimizer) and the index sets of its master parameters and master grads.
Layout(shards, gbuf_map, group_shards, mains, grads) ==
    [model_gbuf_shards |-> shards,
     param_gbuf_map    |-> gbuf_map,
     opt_group_shards  |-> group_shards,
     param_groups      |-> Len(mains),
     main_param        |-> [g \in DOMAIN mains |-> DOMAIN mains[g]],
     main_grad         |-> [g \in DOMAIN grads |-> DOMAIN grads[g]]]

\* C36: frozen layout: once a rank is constructed no call (zero_grad,
\* reduce_grads, step, gather_params, in any order) changes its
\* model_gbuf_shards, param_gbuf_map or opt_group_shards, the number of inner
\* param groups, or the length of any master parameter or master grad.
C36_FrozenLayout ==
    [][\A r \in constructed :
          Layout(model_gbuf_shards'[r], param_gbuf_map'[r], opt_group_shards'[r],
                 main_param'[r], main_grad'[r])
              = Layout(model_gbuf_shards[r], param_gbuf_map[r],
                       opt_group_shards[r], main_param[r], main_grad[r])]_vars

\* After zero_grad and a whole iteration on two ranks or more the master
\* parameters have moved, on ranks that hold master elements.
C36_Witness ==
    /\ world_size >= 2
    /\ GatherParamsReturned
    /\ \A r \in Ranks :
           /\ Positions(trace[r], "zero_grad") # {}
           /\ Positions(trace[r], "inner_step") # {}
    /\ \E r \in Ranks : /\ main_param[r] # iter_start.main_param[r]
                         /\ OwnedElements(r) > 0

\* ------------------------------------------------ PQsIndex: partial indexes

\* Most input data paths (batches) handed to create_partial_indexes.
MaxBatches == 4

\* No optimizer takes part in the run: one idle single-element model on each of
\* w ranks.
NoOptimizerRun(w) ==
    /\ InitConfig(w, MkGbufs(<<[numel |-> 1, sizes |-> <<1>>]>>, FALSE),
                  MkParamGroups(MkGbufs(<<[numel |-> 1, sizes |-> <<1>>]>>,
                                        FALSE), "all_first"),
                  initial_scale)
    /\ NoPipeline(w)
    /\ cfg = Float16Config(MkGbufs(<<[numel |-> 1, sizes |-> <<1>>]>>, FALSE))
    /\ param_grad = [r \in 0..(w - 1) |-> [p \in {1} |-> NoGrad]]
    /\ ckpt = NoCall(w)
    /\ rep_optimizer_state = [r \in 0..(w - 1) |-> 0]

\* The file "partial_<batch id>_<first vec>-<last vec>.faissindex" of a batch,
\* by the tokens get_existing_partial_batch_ids splits its name into.
PartialIndexFile(batch_id) == [prefix |-> "partial", batch_id |-> batch_id]

\* The empty index that create_partial_indexes reads, in the same directory.
EmptyIndexFile == [prefix |-> "empty", batch_id |-> 0]

\* get_existing_partial_index_paths: the directory's entries that start with
\* "partial".
get_existing_partial_index_paths(dir) == {f \in dir : f.prefix = "partial"}

\* get_existing_partial_batch_ids: the set of int(tokens[1]) over these paths.
get_existing_partial_batch_ids(dir) ==
    {f.batch_id : f \in get_existing_partial_index_paths(dir)}

\* The alternative that deals the batches out by their own id.
takes_batch_by_id(batch_id, missing_count, ws, rank) == batch_id % ws = rank

\* "if missing_count % world_size == rank": the rank appends the batch.
takes_batch(batch_id, missing_count, ws, rank) == missing_count % ws = rank

\* The loop of get_missing_input_data_metas from batch_id on, missing_count
\* missing batches having been met so far.
RECURSIVE missing_batch_ids_from(_, _, _, _, _, _)
missing_batch_ids_from(batch_id, n_paths, existing, missing_count, ws, rank) ==
    IF batch_id >= n_paths THEN << >>
    ELSE IF batch_id \in existing
    THEN missing_batch_ids_from(batch_id + 1, n_paths, existing,
                                missing_count, ws, rank)
    ELSE LET rest == missing_batch_ids_from(batch_id + 1, n_paths, existing,
                                            missing_count + 1, ws, rank)
         IN  IF takes_batch(batch_id, missing_count, ws, rank)
             THEN <<batch_id>> \o rest
             ELSE rest

\* PQsIndex.get_missing_input_data_metas, by the batch ids of the metas it
\* returns on a rank.
get_missing_input_data_metas(n_paths, dir, ws, rank) ==
    missing_batch_ids_from(0, n_paths, get_existing_partial_batch_ids(dir), 0,
                           ws, rank)

\* create_partial_indexes up to its barrier: the rank computes its metas from
\* the directory as it is now and enters torch.distributed.barrier().
PQs_get_missing(r) ==
    /\ pqs.pc[r] = "start"
    /\ pqs' = [pqs EXCEPT
           !.missing[r] = get_missing_input_data_metas(pqs.n_paths, pqs.dir,
                                                       world_size, r),
           !.saw[r] = get_existing_partial_batch_ids(pqs.dir),
           !.pc[r] = "barrier"]
    /\ UNCHANGED <<optimizer_vars, fp32, db>>

\* torch.distributed.barrier() returns on every rank once every rank is in it.
PQs_barrier ==
    /\ \A r \in Ranks : pqs.pc[r] = "barrier"
    /\ pqs' = [pqs EXCEPT !.pc = [r \in Ranks |-> "loop"]]
    /\ UNCHANGED <<optimizer_vars, fp32, db>>

\* The loop over the rank's metas. The first iteration ends the process in
\* pax(0, {"index": index, "index2": index2}), before the "write-partial"
\* section; with no meta the loop is skipped and the function returns.
PQs_loop(r) ==
    /\ pqs.pc[r] = "loop"
    /\ pqs' = [pqs EXCEPT
           !.pc[r] = IF pqs.missing[r] = << >> THEN "returned" ELSE "exited"]
    /\ UNCHANGED <<optimizer_vars, fp32, db>>

\* create_partial_indexes is called on every rank for up to MaxBatches input
\* paths, in a directory that holds the empty index and the partial indexes
\* of any of the batches.
InitPQs ==
    \E w \in 1..MaxW, n \in 0..MaxBatches,
       existing \in SUBSET (0..(MaxBatches - 1)) :
        /\ NoOptimizerRun(w)
        /\ fp32 = NoFP32(w)
        /\ db = NoDB(w)
        /\ pqs = [n_paths   |-> n,
                  dir0      |-> {EmptyIndexFile}
                                \cup {PartialIndexFile(b) : b \in existing},
                  dir       |-> {EmptyIndexFile}
                                \cup {PartialIndexFile(b) : b \in existing},
                  pc        |-> [r \in 0..(w - 1) |-> "start"],
                  missing   |-> [r \in 0..(w - 1) |-> << >>],
                  saw       |-> [r \in 0..(w - 1) |-> {}],
                  completed |-> [r \in 0..(w - 1) |-> << >>]]

NextPQs ==
    \/ \E r \in Ranks : PQs_get_missing(r)
    \/ PQs_barrier
    \/ \E r \in Ranks : PQs_loop(r)

SpecPQs == InitPQs /\ [][NextPQs]_vars

\* The batches of the call that had no partial index when it began, in order.
MissingBatches ==
    {b \in 0..(pqs.n_paths - 1) :
        b \notin get_existing_partial_batch_ids(pqs.dir0)}

\* The position of a missing batch among the missing batches, from 0.
MissingRank(b) == Cardinality({a \in MissingBatches : a < b})

\* The batch ids in a rank's list.
ListedBy(r) == {pqs.missing[r][k] : k \in 1..Len(pqs.missing[r])}

\* C37: when all ranks observe the same set of existing partial-index batch
\* ids, every batch id below len(input_data_paths) that is not in the set is
\* assigned to exactly one rank, the k-th missing batch to rank k mod
\* world_size, no existing batch is assigned to any rank, and the per-rank
\* counts differ by at most one.
C37_WorkAssignment ==
    (/\ \A r \in Ranks : pqs.pc[r] \notin {"none", "start"}
     /\ \A r \in Ranks : pqs.saw[r] = pqs.saw[0])
    => /\ \A b \in MissingBatches :
              /\ Cardinality({r \in Ranks : b \in ListedBy(r)}) = 1
              /\ b \in ListedBy(MissingRank(b) % world_size)
       /\ \A r \in Ranks :
              /\ ListedBy(r) \subseteq MissingBatches
              /\ Cardinality(ListedBy(r)) = Len(pqs.missing[r])
       /\ \A r, q \in Ranks :
              Len(pqs.missing[r]) - Len(pqs.missing[q]) \in {-1, 0, 1}

\* Every rank has its list; a batch with a partial index lies below a missing
\* one, and two ranks have work.
C37_Witness ==
    /\ \A r \in Ranks : pqs.pc[r] \notin {"none", "start"}
    /\ \E a \in pqs.saw[0], b \in MissingBatches : a < b
    /\ \E r, q \in Ranks :
           r # q /\ pqs.missing[r] # << >> /\ pqs.missing[q] # << >>

\* C38: no rank writes a partial index file before every rank has finished
\* computing its missing-batch list, so all ranks compute their lists from the
\* same set of existing files, and once every rank is through, every missing
\* batch has been processed by exactly one rank.
C38_BarrierBeforeWrites ==
    /\ (\E r \in Ranks : pqs.pc[r] = "start") => pqs.dir = pqs.dir0
    /\ \A r \in Ranks :
           pqs.pc[r] \notin {"none", "start"}
               => pqs.saw[r] = get_existing_partial_batch_ids(pqs.dir0)
    /\ (\A r \in Ranks : pqs.pc[r] \in {"returned", "exited"})
           => \A b \in MissingBatches :
                  Cardinality({r \in Ranks :
                      \E k \in 1..Len(pqs.completed[r]) :
                          pqs.completed[r][k] = b}) = 1

\* ------------------------------------------------- merge_dbs: merged chunk db

\* Most chunks of one indexed dataset.
MaxChunks == 2

\* Most indexed datasets merged into one db.
MaxDatasets == 2

\* The merged db file: absent, an HDF5 file with "chunks" of n_alloc rows and
\* an "n_written" counter, a file h5py cannot open (OSError), or an HDF5 file
\* without these datasets (KeyError).
DbFile(state, n_alloc, n_written) ==
    [state |-> state, n_alloc |-> n_alloc, n_written |-> n_written]

AbsentDb == DbFile("absent", 0, 0)

\* The key of the chunk count that merge_dbs sums for a db_type.
n_chunks_of(info, db_type) ==
    IF db_type = "full" THEN info.n_chunks_valid ELSE info.n_chunks_sampled

\* n_chunks = sum(m[n_chunks_key] for m in indexed_dataset_infos)
RECURSIVE count_chunks(_, _)
count_chunks(infos, db_type) ==
    IF infos = << >> THEN 0
    ELSE n_chunks_of(Head(infos), db_type) + count_chunks(Tail(infos), db_type)

\* get_individual_db: the valid chunks of one indexed dataset, by their number.
get_individual_db(info) == info.n_chunks_valid

\* start_index after the loop that copies individual_db[:ds_info[n_chunks_key]]
\* of every dataset into the merged db.
RECURSIVE merged_rows(_, _)
merged_rows(infos, db_type) ==
    IF infos = << >> THEN 0
    ELSE Min(n_chunks_of(Head(infos), db_type), get_individual_db(Head(infos)))
         + merged_rows(Tail(infos), db_type)

\* The exception that the check of the existing db ends with, "" if none:
\* both handlers of the except clause call os.remove(full_db_path), a name
\* that merge_dbs does not define.
existing_db_check_raises(file) ==
    IF file.state \in {"unopenable", "no_datasets"} THEN "NameError" ELSE ""

\* "if n_chunks != n_alloc or n_chunks != n_written: os.remove(db_path)"
existing_db_is_removed(file, n_chunks) ==
    /\ file.state = "ok"
    /\ (n_chunks # file.n_alloc \/ n_chunks # file.n_written)

\* merge_dbs(indexed_dataset_infos, db_type) on one rank.
merge_dbs(r) ==
    /\ db.pc[r] = "start"
    /\ IF r # 0
       THEN db' = [db EXCEPT !.pc[r] = "returned"]
       ELSE IF db.db_type \notin {"full", "sampled"}
       THEN db' = [db EXCEPT !.pc[r] = "raised", !.raised[r] = "Exception"]
       ELSE LET n_chunks == count_chunks(db.infos, db.db_type)
                removes  == existing_db_is_removed(db.file, n_chunks)
                checked  == IF removes THEN AbsentDb ELSE db.file
            IN  IF existing_db_check_raises(db.file) # ""
                THEN db' = [db EXCEPT
                         !.pc[r] = "raised",
                         !.raised[r] = existing_db_check_raises(db.file)]
                ELSE IF checked.state = "absent"
                THEN db' = [db EXCEPT
                         !.file = DbFile("ok", n_chunks,
                                         merged_rows(db.infos, db.db_type)),
                         !.removed = removes,
                         !.built = TRUE,
                         !.pc[r] = "returned"]
                ELSE db' = [db EXCEPT !.pc[r] = "returned"]
    /\ UNCHANGED <<optimizer_vars, fp32, pqs>>

\* The indexed datasets: up to MaxChunks valid chunks each, of which some are
\* sampled.
DatasetInfos ==
    [n_chunks_valid : 1..MaxChunks, n_chunks_sampled : 1..MaxChunks]

DatasetInfoLists ==
    {infos \in UNION {[1..k -> DatasetInfos] : k \in 1..MaxDatasets} :
        \A i \in 1..Len(infos) :
            infos[i].n_chunks_sampled <= infos[i].n_chunks_valid}

\* What may lie at the merged db's path before a call that expects n_chunks
\* chunks: nothing, a broken file, or a db allocated for n_chunks rows, one
\* fewer or one more, written in full or but for its last row.
ExistingDbFiles(n_chunks) ==
    {AbsentDb, DbFile("unopenable", 0, 0), DbFile("no_datasets", 0, 0)}
    \cup {DbFile("ok", a, n) : a \in (n_chunks - 1)..(n_chunks + 1),
                               n \in (n_chunks - 2)..(n_chunks + 1)}

\* merge_dbs is called on every rank, for a db_type and any file at the db
\* path.
InitDB ==
    \E w \in 1..MaxW, infos \in DatasetInfoLists,
       db_type \in {"full", "sampled", "other"} :
      \E file \in ExistingDbFiles(count_chunks(infos, db_type)) :
        /\ file.n_written \in {file.n_alloc - 1, file.n_alloc}
        /\ file.n_written >= 0
        /\ NoOptimizerRun(w)
        /\ fp32 = NoFP32(w)
        /\ pqs = NoPQs(w)
        /\ db = [NoDB(w) EXCEPT
               !.db_type = db_type,
               !.infos = infos,
               !.initial = file,
               !.file = file,
               !.pc = [r \in 0..(w - 1) |-> "start"]]

NextDB == \E r \in Ranks : merge_dbs(r)

SpecDB == InitDB /\ [][NextDB]_vars

\* The number of chunks the merged db is expected to hold.
ExpectedChunks == count_chunks(db.infos, db.db_type)

\* The db found at the path cannot be used as it is.
UnusableDb ==
    \/ db.initial.state \in {"unopenable", "no_datasets"}
    \/ /\ db.initial.state = "ok"
       /\ (db.initial.n_alloc # ExpectedChunks
           \/ db.initial.n_written # ExpectedChunks)

\* C39: merge_dbs on rank 0 deletes and rebuilds an existing merged db whose
\* allocated row count or n_written counter differs from the expected
\* n_chunks, or which cannot be opened or lacks the expected datasets; it
\* keeps an existing db with matching counts untouched; when it returns, the
\* db file exists with n_written equal to n_chunks; other ranks do nothing.
C39_MergeDbs ==
    db.db_type \in {"full", "sampled"}
    => /\ db.pc[0] = "start" => db.file = db.initial
       /\ \A r \in Ranks \ {0} : db.pc[r] \in {"start", "returned"}
       /\ db.pc[0] # "start"
              => /\ UnusableDb
                     => /\ db.pc[0] = "returned"
                        /\ db.removed /\ db.built
                        /\ db.file = DbFile("ok", ExpectedChunks, ExpectedChunks)
                 /\ (db.initial.state = "ok" /\ ~UnusableDb)
                     => /\ db.pc[0] = "returned"
                        /\ ~db.removed /\ ~db.built
                        /\ db.file = db.initial
                 /\ db.pc[0] = "returned"
                     => /\ db.file.state = "ok"
                        /\ db.file.n_written = ExpectedChunks
====
